---- MODULE Spec2Model ----
(***************************************************************************)
(* Repository ingestion pipeline of Nexus-studio: the batched, cancellable *)
(* downloader fetchGithubRepoContents (src/services/github.ts) driven by   *)
(* the RepoView component's handleGithubFetch / cancelFetch handlers       *)
(* (src/components/RepoView.tsx).                                          *)
(*                                                                         *)
(* One action is one macrotask of the JavaScript event loop: a user event  *)
(* or the arrival of a network result, together with the whole chain of    *)
(* microtask continuations it triggers (Promise.all resolution, the next   *)
(* loop iteration, the return into handleGithubFetch, its finally block).  *)
(***************************************************************************)
EXTENDS Integers, Sequences, FiniteSets, TLC

\* ---------------------------------------------------------------- bounds
MaxFiles == 11          \* largest filesToFetch.length explored by Spec
MaxSessions == 2        \* handleGithubFetch invocations explored by SpecOverlap
MaxFilesOverlap == 2    \* largest filesToFetch.length explored by SpecOverlap
MaxBranchEdits == 1     \* edits of the branch field explored by SpecOverlap

\* ------------------------------------------------------ program constants
batchSize == 5          \* github.ts:184
ProgressStep == 25      \* RepoView.tsx:747, 2.5 in tenths of a percent
ProgressCap == 950      \* RepoView.tsx:747, 95
ProgressDone == 1000    \* RepoView.tsx:772, 100

Sessions == 1..MaxSessions

VARIABLES
  view,        \* the RepoView component's state (useState / useRef cells)
  sess,        \* per invocation of handleGithubFetch: the closure of fetchGithubRepoContents
  aborted,     \* per invocation: its AbortController's signal.aborted
  nSessions,   \* number of handleGithubFetch invocations so far
  sel,         \* one run of the file selection of fetchGithubRepoContents (github.ts:117-195)
  rt,          \* one corpus assembled by fetchGithubRepoContents and cut by chunkCode
  rag,         \* the running indexCodebase (ix) and searchCodebase (sr) calls
  pu           \* one call of parseGithubUrl: its argument and what it gave back

vars == <<view, sess, aborted, nSessions, sel, rt, rag, pu>>

Min(a, b) == IF a < b THEN a ELSE b

\* A status line; k/n are the counts of "Downloading files (k/n)...".
Msg(m) == [msg |-> m, k |-> 0, n |-> 0]
Downloading(k, n) == [msg |-> "Downloading files", k |-> k, n |-> n]

NoContent == [owner |-> 0, files |-> <<>>]

InitView ==
  [ abortControllerRef |-> 0,        \* 0 is null, otherwise the owning session
    isFetchingRepo     |-> FALSE,
    fetchStatus        |-> Msg(""),
    fetchProgress      |-> 0,
    fetchedFiles       |-> <<>>,
    activeRepo         |-> 0,        \* 0 is null, otherwise the session whose repoDetails it holds
    codeContext        |-> NoContent,
    branchInput        |-> "",
    branchByUser       |-> FALSE,    \* the content of branchInput was typed by the user
    branchEdits        |-> 0,        \* number of edits of the branch field so far
    commits            |-> 0,        \* 0 is [], otherwise the session whose commit list it holds
    isLoadingCommits   |-> FALSE,
    indexedChunks      |-> <<>>,
    isIndexing         |-> FALSE,
    semanticResults    |-> <<>>,
    isSearchingRAG     |-> FALSE ]

\* pc: idle -> meta -> tree -> download -> returned | failed
\* req[f]  : the raw-content request of file f as the network sees it
\*           none | fetching | reading | ok | fail | abort
\* ret[f]  : what file f's batch promise resolved to: unset | null | record
\* emitted[f], nTerminal[f], notified, lastProgress record the calls this
\* invocation made to onFileUpdate / onProgress; inverted records that some
\* file finished loading while an earlier file of its batch was still pending.
\* repo is the repository the URL names, optBranch is options.branch,
\* userBranch the branch the user typed for this fetch ("" when none),
\* metaStatus / treeStatus the HTTP status of the two lookups (0: no response).
\* commitReq : the commit-list request fetchCommitsForRepo made for this
\*             session's repoDetails: none | pending | ok | fail
InitSession ==
  [ pc           |-> "idle",
    error        |-> "",
    repo         |-> "",
    optBranch    |-> "",
    userBranch   |-> "",
    branch       |-> "",
    metaStatus   |-> 0,
    treeStatus   |-> 0,
    commitReq    |-> "none",
    n            |-> 0,
    i            |-> 0,
    req          |-> <<>>,
    ret          |-> <<>>,
    loadedCount  |-> 0,
    results      |-> <<>>,
    emitted      |-> <<>>,
    nTerminal    |-> <<>>,
    notified     |-> 0,
    inverted     |-> FALSE,
    lastProgress |-> Downloading(0, 0) ]

\* The selection run: its inputs (tree, allowedExtensions, fetchAll,
\* maxFileSize), its locals (filtered is allFiles before the sort) and the
\* calls it made (pending: onFileUpdate records, requested: raw-content paths).
\* pc: idle | start -> selected -> notified -> downloading, or start -> failed
SelIdle ==
  [ pc                |-> "idle",
    tree              |-> <<>>,
    allowedExtensions |-> <<>>,
    fetchAll          |-> FALSE,
    maxFileSize       |-> 0,
    filtered          |-> <<>>,
    allFiles          |-> <<>>,
    filesToFetch      |-> <<>>,
    pending           |-> <<>>,
    requested         |-> <<>>,
    error             |-> "" ]

InitFetch ==
  /\ view = InitView
  /\ sess = [s \in Sessions |-> InitSession]
  /\ aborted = [s \in Sessions |-> FALSE]
  /\ nSessions = 0

\* the corpus round trip before it starts: the downloaded files, the corpus
\* assembled from them and the chunks cut from the corpus
RtIdle ==
  [ pc          |-> "idle",
    files       |-> <<>>,
    description |-> <<>>,
    corpus      |-> <<>>,
    chunks      |-> <<>> ]

\* An embedding is a vector of numbers; a chunk without one has none of them.
NoEmbedding == <<>>

\* ix, the indexCodebase call of handleIndexCodebase
\*   pc: idle -> embedding (request i + 1 in flight) -> delay (the 50 ms timer)
\*       -> embedding ... -> done
\*   progress: the onProgress calls, each with the number of embedding
\*   requests issued and settled when it was made; outcomes: what each
\*   request settled with, a vector or Rejected.
\* sr, a searchCodebase call
\*   pc: idle -> embedding (the query request in flight) -> done, or idle -> done
\*   byHandler: called by handleSemanticSearch; index, topK: its arguments;
\*   context: the corpus in the context pane when it was called;
\*   queryRequests: query-embedding requests issued by this call.
RagIdle ==
  [ ix |-> [ pc            |-> "idle",
             chunks        |-> <<>>,
             i             |-> 0,
             indexedChunks |-> <<>>,
             progress      |-> <<>>,
             outcomes      |-> <<>>,
             issued        |-> 0,
             raised        |-> FALSE ],
    sr |-> [ pc            |-> "idle",
             byHandler     |-> FALSE,
             index         |-> <<>>,
             context       |-> 0,
             topK          |-> 0,
             queryRequests |-> 0,
             query         |-> NoEmbedding,
             results       |-> <<>>,
             raised        |-> FALSE ] ]

\* github.ts:6,9,21: return null
Null == [null |-> TRUE]

\* A call of parseGithubUrl before it is made. url is the argument, a string
\* of characters; origin, segments and tail are the pieces the string was put
\* together from (scheme and authority, the path segments each written after
\* a "/", query or fragment). value and raised are what the call gave back.
\* pc: idle | start -> parsed
PuIdle ==
  [ pc       |-> "idle",
    origin   |-> <<>>,
    segments |-> <<>>,
    tail     |-> <<>>,
    url      |-> <<>>,
    value    |-> Null,
    raised   |-> FALSE ]

Init ==
  /\ InitFetch
  /\ sel = SelIdle
  /\ rt = RtIdle
  /\ rag = RagIdle
  /\ pu = PuIdle

\* ------------------------------------------------------------- RepoView
\* setFetchedFiles(prev => ...): replace the entry with the same path, else append.
upsert_AlwaysAppend(prev, file) == Append(prev, file)

upsert(prev, file) ==
  IF \E k \in DOMAIN prev : prev[k].path = file.path
    THEN [k \in DOMAIN prev |-> IF prev[k].path = file.path THEN file ELSE prev[k]]
    ELSE Append(prev, file)

updateFile(vw, file) ==
  [vw EXCEPT !.fetchedFiles = upsert(@, file),
             !.fetchProgress = IF file.status = "success"
                                 THEN Min(@ + ProgressStep, ProgressCap) ELSE @]

updateProgress(vw, status) == [vw EXCEPT !.fetchStatus = status]

\* ------------------------------------------------- callbacks of a session
\* A pair st = [se, vw]: the closure of one invocation and the component state.
onProgress(st, status) ==
  [se |-> IF status.msg = "Downloading files"
            THEN [st.se EXCEPT !.notified = @ + 1, !.lastProgress = status]
            ELSE st.se,
   vw |-> updateProgress(st.vw, status)]

onFileUpdate(st, f, status) ==
  [se |-> [st.se EXCEPT !.emitted[f] = status,
                        !.nTerminal[f] = IF status = "pending" THEN @ ELSE @ + 1],
   vw |-> updateFile(st.vw, [path |-> f, status |-> status])]

\* signal?.aborted as read by fetchGithubRepoContents
SignalAborted_NoSignal(s) == FALSE

SignalAborted(s) == aborted[s]

\* finally { setIsFetchingRepo(false); abortControllerRef.current = null; }
Finally(vw) == [vw EXCEPT !.isFetchingRepo = FALSE, !.abortControllerRef = 0]

\* An exception leaving fetchGithubRepoContents: the catch and finally blocks
\* of handleGithubFetch.
Throw(st, name, message) ==
  [se |-> [st.se EXCEPT !.pc = "failed", !.error = message],
   vw |-> Finally([st.vw EXCEPT
            !.fetchStatus = IF name = "AbortError"
                              THEN Msg("Fetch cancelled by user.")
                              ELSE Msg("Error: " \o message),
            !.fetchProgress = 0])]

\* The normal return of fetchGithubRepoContents and the rest of the try block,
\* fetchCommitsForRepo included up to its await.
Return(st, s) ==
  LET st1 == onProgress(st, Msg("Repository loaded successfully."))
      content == [owner |-> s, files |-> st1.se.results]
  IN [se |-> [st1.se EXCEPT !.pc = "returned", !.commitReq = "pending"],
      vw |-> Finally([st1.vw EXCEPT
               !.isLoadingCommits = TRUE,
               !.codeContext = content,
               !.activeRepo = s,
               !.branchInput = IF st1.se.optBranch = "" THEN st1.se.branch ELSE @,
               !.branchByUser = IF st1.se.optBranch = "" THEN FALSE ELSE @,
               !.fetchStatus = Msg("Repository loaded."),
               !.fetchProgress = ProgressDone])]

\* ------------------------------------------------------- the batch loop
\* filesToFetch.slice(i, i + batchSize), as 1-based positions of filesToFetch
BatchOf(i, n) == {f \in 1..n : f > i /\ f <= i + batchSize}

BatchSettled_Race(se) == \E f \in BatchOf(se.i, se.n) : se.ret[f] # "unset"

\* Promise.all(batchPromises) has resolved: every promise of the batch settled
BatchSettled(se) == \A f \in BatchOf(se.i, se.n) : se.ret[f] # "unset"

BatchResults_NoFilter(se) ==
  [k \in 1..Cardinality(BatchOf(se.i, se.n)) |-> se.i + k]

BatchResults_Reversed(se) ==
  LET m == Cardinality(BatchOf(se.i, se.n))
  IN SelectSeq([k \in 1..m |-> se.i + m + 1 - k], LAMBDA f : se.ret[f] = "record")

\* batchResults.filter(r => r !== null), in the order of the batch
BatchResults(se) ==
  SelectSeq([k \in 1..Cardinality(BatchOf(se.i, se.n)) |-> se.i + k],
            LAMBDA f : se.ret[f] = "record")

\* batch.map(async file => ...) up to each promise's first await
IssueBatch(se, s) ==
  LET batch == BatchOf(se.i, se.n)
  IN [se EXCEPT
        !.req = [f \in DOMAIN @ |->
                   IF f \in batch /\ ~SignalAborted(s) THEN "fetching" ELSE @[f]],
        !.ret = [f \in DOMAIN @ |->
                   IF f \in batch
                     THEN (IF SignalAborted(s) THEN "null" ELSE "unset")
                     ELSE @[f]]]

DownloadFailed_IgnoresAbort(se, s) == Len(se.results) = 0

\* if (results.length === 0 && !signal?.aborted) throw ...
DownloadFailed(se, s) == Len(se.results) = 0 /\ ~SignalAborted(s)

\* The head of the for loop with se.i already set; runs until the next await
\* or until fetchGithubRepoContents is left.
RunLoop(st, s) ==
  IF st.se.i < st.se.n /\ ~SignalAborted(s)
    THEN [st EXCEPT !.se = IssueBatch(@, s)]
    ELSE IF DownloadFailed(st.se, s)
           THEN Throw(st, "Error", "Failed to download raw file contents.")
           ELSE Return(st, s)

\* The continuation of one batch promise having settled: when it was the
\* last of its batch, push the batch's results and go round the loop.
AfterSettle(st, s) ==
  IF BatchSettled(st.se)
    THEN RunLoop([st EXCEPT !.se.results = @ \o BatchResults(st.se),
                            !.se.i = @ + batchSize], s)
    ELSE st

\* filesToFetch.forEach(f => onFileUpdate({..., status: 'pending'}))
RECURSIVE EmitPending(_, _, _)
EmitPending(st, k, n) ==
  IF k > n THEN st ELSE EmitPending(onFileUpdate(st, k, "pending"), k + 1, n)

CatchMarksError_Always(name) == TRUE

\* catch (err) { if (err.name !== 'AbortError') onFileUpdate(error) ; return null }
CatchMarksError(name) == name # "AbortError"

LoadedProgress_Stale(se) == Downloading(se.loadedCount - 1, se.n)

\* loadedCount++; onProgress(`Downloading files (${loadedCount}/${filesToFetch.length})...`)
LoadedProgress(se) == Downloading(se.loadedCount, se.n)

\* The name of the rejection a pending fetch of session s produces: aborting
\* the signal rejects every pending request with AbortError.
RejectionName(s) == IF aborted[s] THEN "AbortError" ELSE "TypeError"

Commit(st, s) ==
  /\ sess' = [sess EXCEPT ![s] = st.se]
  /\ view' = st.vw
  /\ UNCHANGED <<sel, rt, rag, pu>>

\* --------------------------------------------------------------- actions
\* The user presses Fetch (RepoView.tsx:720-787 up to the first await).
HandleGithubFetch(maxS, urlOk, repo) ==
  /\ nSessions < maxS
  /\ LET s == nSessions + 1
         prev == view.abortControllerRef
         vw0 == [view EXCEPT !.abortControllerRef = s,
                             !.isFetchingRepo = TRUE,
                             !.fetchStatus = Msg("Initializing..."),
                             !.fetchProgress = 0,
                             !.fetchedFiles = <<>>,
                             !.activeRepo = 0,
                             !.commits = 0]
         st0 == [se |-> [sess[s] EXCEPT
                           !.repo = IF urlOk THEN repo ELSE "",
                           !.optBranch = view.branchInput,
                           !.userBranch = IF view.branchByUser THEN view.branchInput ELSE ""],
                 vw |-> vw0]
         st1 == IF urlOk
                  THEN onProgress([st0 EXCEPT !.se.pc = "meta"],
                                  Msg("Connecting to GitHub API..."))
                  ELSE Throw(st0, "Error", "Invalid GitHub URL.")
     IN /\ aborted' = IF prev # 0 THEN [aborted EXCEPT ![prev] = TRUE] ELSE aborted
        /\ nSessions' = s
        /\ Commit(st1, s)

\* The user edits the branch field (RepoView.tsx:1265-1271).
SetBranchInput(b) ==
  /\ view.branchEdits < MaxBranchEdits
  /\ view' = [view EXCEPT !.branchInput = b, !.branchByUser = TRUE, !.branchEdits = @ + 1]
  /\ UNCHANGED <<sess, aborted, nSessions, sel, rt, rag, pu>>

\* The user presses Stop (RepoView.tsx:801-805).
CancelFetch ==
  /\ view.abortControllerRef # 0
  /\ ~aborted[view.abortControllerRef]
  /\ aborted' = [aborted EXCEPT ![view.abortControllerRef] = TRUE]
  /\ UNCHANGED <<view, sess, nSessions, sel, rt, rag, pu>>

\* repoData.default_branch as the server reports it ("" when it reports none)
DefaultBranch(repo) ==
  CASE repo = "octo/alpha" -> "dev"
    [] OTHER -> ""

\* a || b || c on strings: the first that is not empty
FirstTruthy(a, b, c) == IF a # "" THEN a ELSE IF b # "" THEN b ELSE c

\* const branch = options.branch || repoData.default_branch || 'main'
ResolveBranch(optBranch, repo) == FirstTruthy(optBranch, DefaultBranch(repo), "main")

\* the error thrown for a metadata response that is not ok (github.ts:89-93)
MetaError(status) ==
  IF status = 404 THEN "Repository not found."
  ELSE IF status = 403 THEN "GitHub API rate limit exceeded."
  ELSE "GitHub API Error (" \o ToString(status) \o ")"

TreeError_NoBranchCase(status, branch) == "Failed to retrieve file structure."

\* the error thrown for a tree response that is not ok (github.ts:106-109)
TreeError(status, branch) ==
  IF status = 404 THEN "Branch '" \o branch \o "' not found."
  ELSE "Failed to retrieve file structure."

\* The repository metadata response arrives (github.ts:84-100).
MetaResolve(s, status) ==
  /\ sess[s].pc = "meta"
  /\ ~aborted[s]
  /\ LET st == [se |-> [sess[s] EXCEPT !.metaStatus = status], vw |-> view]
         st1 == IF status = 200
                  THEN onProgress([st EXCEPT !.se.pc = "tree",
                                             !.se.branch = ResolveBranch(st.se.optBranch, st.se.repo)],
                                  Msg("Scanning repository structure..."))
                  ELSE Throw(st, "Error", MetaError(status))
     IN Commit(st1, s)
  /\ UNCHANGED <<aborted, nSessions>>

\* The metadata or the tree request is rejected (network failure or abort).
LookupReject(s) ==
  /\ sess[s].pc \in {"meta", "tree"}
  /\ Commit(Throw([se |-> sess[s], vw |-> view], RejectionName(s), "Failed to fetch"), s)
  /\ UNCHANGED <<aborted, nSessions>>

\* The tree response arrives; n files survive filter, sort and cap
\* (github.ts:101-195).
TreeResolve(s, status, n) ==
  /\ sess[s].pc = "tree"
  /\ ~aborted[s]
  /\ LET st == [se |-> [sess[s] EXCEPT !.treeStatus = status], vw |-> view]
         se0 == [st.se EXCEPT !.pc = "download",
                              !.n = n,
                              !.i = 0,
                              !.req = [f \in 1..n |-> "none"],
                              !.ret = [f \in 1..n |-> "unset"],
                              !.emitted = [f \in 1..n |-> "none"],
                              !.nTerminal = [f \in 1..n |-> 0]]
         st1 == IF status # 200 THEN Throw(st, "Error", TreeError(status, st.se.branch))
                ELSE IF n = 0 THEN Throw(st, "Error", "No analyzable code files found matching the criteria.")
                ELSE RunLoop(onProgress(EmitPending([st EXCEPT !.se = se0], 1, n),
                                        Msg("Downloading n files...")), s)
     IN Commit(st1, s)
  /\ UNCHANGED <<aborted, nSessions>>

\* The response headers of a raw-content request arrive (github.ts:195-199).
FetchResolve(s, f, ok) ==
  /\ sess[s].pc = "download"
  /\ f \in DOMAIN sess[s].req
  /\ sess[s].req[f] = "fetching"
  /\ ~aborted[s]
  /\ LET st == [se |-> sess[s], vw |-> view]
         st1 == IF ok
                  THEN [st EXCEPT !.se.req[f] = "reading"]
                  ELSE AfterSettle(
                         onFileUpdate([st EXCEPT !.se.req[f] = "fail", !.se.ret[f] = "null"],
                                      f, "error"), s)
     IN Commit(st1, s)
  /\ UNCHANGED <<aborted, nSessions>>

\* The body of a raw-content response has been read (github.ts:201-212).
TextResolve(s, f) ==
  /\ sess[s].pc = "download"
  /\ f \in DOMAIN sess[s].req
  /\ sess[s].req[f] = "reading"
  /\ ~aborted[s]
  /\ LET st == [se |-> sess[s], vw |-> view]
         early == \E g \in 1..(f - 1) : sess[s].req[g] \in {"fetching", "reading"}
         st1 == [st EXCEPT !.se.req[f] = "ok", !.se.loadedCount = @ + 1,
                           !.se.inverted = @ \/ early]
         st2 == onProgress(st1, LoadedProgress(st1.se))
         st3 == onFileUpdate(st2, f, "success")
         st4 == [st3 EXCEPT !.se.ret[f] = "record"]
     IN Commit(AfterSettle(st4, s), s)
  /\ UNCHANGED <<aborted, nSessions>>

\* fetch() or res.text() of a raw-content request rejects (github.ts:213-219).
RequestReject(s, f) ==
  /\ sess[s].pc = "download"
  /\ f \in DOMAIN sess[s].req
  /\ sess[s].req[f] \in {"fetching", "reading"}
  /\ LET name == RejectionName(s)
         st == [se |-> sess[s], vw |-> view]
         st1 == [st EXCEPT !.se.req[f] = IF name = "AbortError" THEN "abort" ELSE "fail"]
         st2 == IF CatchMarksError(name) THEN onFileUpdate(st1, f, "error") ELSE st1
         st3 == [st2 EXCEPT !.se.ret[f] = "null"]
     IN Commit(AfterSettle(st3, s), s)
  /\ UNCHANGED <<aborted, nSessions>>

NextB(maxS, maxF, repos) ==
  \/ \E urlOk \in BOOLEAN, repo \in repos : HandleGithubFetch(maxS, urlOk, repo)
  \/ CancelFetch
  \/ \E s \in Sessions, status \in {200, 403, 404, 500} : MetaResolve(s, status)
  \/ \E s \in Sessions : LookupReject(s)
  \/ \E s \in Sessions, status \in {200, 403, 404, 500}, n \in 0..maxF : TreeResolve(s, status, n)
  \/ \E s \in Sessions, f \in 1..maxF, ok \in BOOLEAN : FetchResolve(s, f, ok)
  \/ \E s \in Sessions, f \in 1..maxF : TextResolve(s, f)
  \/ \E s \in Sessions, f \in 1..maxF : RequestReject(s, f)

\* One fetch session, up to MaxFiles files.
Next == NextB(1, MaxFiles, {"octo/alpha"})
Spec == Init /\ [][Next]_vars

\* handleGithubFetch re-entered while earlier invocations are still running.
\* the repositories and the branch names SpecOverlap draws from
Repos == {"octo/alpha", "octo/beta"}
Branches == {"", "feature-x"}

NextOverlap ==
  \/ NextB(MaxSessions, MaxFilesOverlap, Repos)
  \/ \E b \in Branches : SetBranchInput(b)
SpecOverlap == Init /\ [][NextOverlap]_vars

\* ============================================================== commits
\* The response to the commit-list request of session s arrives
\* (github.ts:55-66) and fetchCommitsForRepo resumes (RepoView.tsx:789-799).
CommitsResolve(s, ok) ==
  /\ sess[s].commitReq = "pending"
  /\ sess' = [sess EXCEPT ![s].commitReq = IF ok THEN "ok" ELSE "fail"]
  /\ view' = [view EXCEPT !.commits = IF ok THEN s ELSE @,
                          !.isLoadingCommits = FALSE]
  /\ UNCHANGED <<aborted, nSessions, sel, rt, rag, pu>>

\* Two fetches in a row, one file each, and their commit lists.
MaxFilesCommits == 1

NextCommits ==
  \/ NextB(MaxSessions, MaxFilesCommits, Repos)
  \/ \E s \in Sessions, ok \in BOOLEAN : CommitsResolve(s, ok)
SpecCommits == Init /\ [][NextCommits]_vars

\* ============================================================ selection
\* Strings are sequences of one-character strings, so that includes,
\* startsWith, endsWith and toLowerCase are computed and not assumed.
StartsWith(str, p) == Len(p) <= Len(str) /\ SubSeq(str, 1, Len(p)) = p
EndsWith(str, p) == Len(p) <= Len(str) /\ SubSeq(str, Len(str) - Len(p) + 1, Len(str)) = p
Includes(str, p) ==
  \E k \in 1..(Len(str) - Len(p) + 1) : SubSeq(str, k, k + Len(p) - 1) = p

LowerChar(ch) ==
  CASE ch = "A" -> "a" [] ch = "D" -> "d" [] ch = "E" -> "e"
    [] ch = "M" -> "m" [] ch = "R" -> "r" [] OTHER -> ch
ToLowerCase(str) == [k \in DOMAIN str |-> LowerChar(str[k])]

Undefined == -1                 \* an absent number (node.size, options.maxFileSize)
Infinity == 2147483647          \* larger than every size
DefaultMaxSize == 102400        \* github.ts:130, 100 * 1024
LimitFetchAll == 200            \* github.ts:171
LimitNarrow == 30               \* github.ts:171
LimitDefault == 20              \* github.ts:171

\* a number used as a condition: undefined and 0 are falsy
Truthy(v) == v # Undefined /\ v # 0

defaultExtensions ==
  << <<".", "j", "s">>,
     <<".", "j", "s", "x">>,
     <<".", "t", "s">>,
     <<".", "t", "s", "x">>,
     <<".", "p", "y">>,
     <<".", "g", "o">>,
     <<".", "j", "a", "v", "a">>,
     <<".", "c">>,
     <<".", "c", "p", "p">>,
     <<".", "r", "s">>,
     <<".", "r", "b">>,
     <<".", "p", "h", "p">>,
     <<".", "h", "t", "m", "l">>,
     <<".", "c", "s", "s">>,
     <<".", "j", "s", "o", "n">>,
     <<".", "m", "d">>,
     <<".", "y", "m", "l">>,
     <<".", "y", "a", "m", "l">>,
     <<".", "t", "o", "m", "l">>,
     <<".", "s", "q", "l">> >>

effectiveExtensions_IgnoreCaller(fetchAll, allowedExtensions) ==
  IF fetchAll THEN <<>> ELSE defaultExtensions

\* github.ts:125-127
effectiveExtensions(fetchAll, allowedExtensions) ==
  IF fetchAll THEN <<>>
  ELSE IF Len(allowedExtensions) > 0 THEN allowedExtensions ELSE defaultExtensions

\* github.ts:130
maxSizeBytes(fetchAll, maxFileSize) ==
  IF fetchAll THEN Infinity
  ELSE IF Truthy(maxFileSize) THEN maxFileSize ELSE DefaultMaxSize

\* github.ts:140-150
isBlocked(path) ==
  \/ Includes(path, <<"p", "a", "c", "k", "a", "g", "e", "-", "l", "o", "c", "k">>)
  \/ Includes(path, <<"y", "a", "r", "n", ".", "l", "o", "c", "k">>)
  \/ Includes(path, <<"n", "o", "d", "e", "_", "m", "o", "d", "u", "l", "e", "s", "/">>)
  \/ Includes(path, <<"d", "i", "s", "t", "/">>)
  \/ Includes(path, <<"b", "u", "i", "l", "d", "/">>)
  \/ Includes(path, <<".", "m", "i", "n", ".">>)
  \/ EndsWith(path, <<".", "p", "n", "g">>)
  \/ EndsWith(path, <<".", "j", "p", "g">>)
  \/ EndsWith(path, <<".", "i", "c", "o">>)
  \/ EndsWith(path, <<".", "s", "v", "g">>)

KeepNode_FetchAllFirst(node, fetchAll, allowedExtensions, maxFileSize) ==
  IF node.type # "blob" THEN FALSE
  ELSE IF fetchAll THEN TRUE
  ELSE IF Truthy(node.size) /\ node.size > maxSizeBytes(fetchAll, maxFileSize) THEN FALSE
  ELSE IF isBlocked(node.path) THEN FALSE
  ELSE \E k \in DOMAIN effectiveExtensions(fetchAll, allowedExtensions) :
         EndsWith(node.path, effectiveExtensions(fetchAll, allowedExtensions)[k])

\* the callback of treeData.tree.filter (github.ts:133-157)
KeepNode(node, fetchAll, allowedExtensions, maxFileSize) ==
  IF node.type # "blob" THEN FALSE
  ELSE IF Truthy(node.size) /\ node.size > maxSizeBytes(fetchAll, maxFileSize) THEN FALSE
  ELSE IF isBlocked(node.path) THEN FALSE
  ELSE IF fetchAll THEN TRUE
  ELSE \E k \in DOMAIN effectiveExtensions(fetchAll, allowedExtensions) :
         EndsWith(node.path, effectiveExtensions(fetchAll, allowedExtensions)[k])

FilterTree(tree, fetchAll, allowedExtensions, maxFileSize) ==
  SelectSeq(tree, LAMBDA node : KeepNode(node, fetchAll, allowedExtensions, maxFileSize))

\* github.ts:161-166
score(path) ==
  IF Includes(ToLowerCase(path), <<"r", "e", "a", "d", "m", "e", ".", "m", "d">>) THEN 3
  ELSE IF EndsWith(path, <<"j", "s", "o", "n">>) \/ EndsWith(path, <<"t", "o", "m", "l">>) \/ EndsWith(path, <<"y", "m", "l">>) THEN 2
  ELSE IF StartsWith(path, <<"s", "r", "c", "/">>) THEN 1
  ELSE 0

\* allFiles.sort((a, b) => score(b.path) - score(a.path)) (github.ts:160-168):
\* higher scores first, and Array.prototype.sort is stable, so the files of one
\* score keep the order in which they were listed.
SortFiles(files) ==
  LET scored(s) == SelectSeq(files, LAMBDA f : score(f.path) = s)
  IN scored(3) \o scored(2) \o scored(1) \o scored(0)

limit_AlwaysFetchAll(fetchAll, allowedExtensions) == LimitFetchAll

\* github.ts:171
limit(fetchAll, allowedExtensions) ==
  IF fetchAll THEN LimitFetchAll
  ELSE IF Len(allowedExtensions) > 0 /\ Len(allowedExtensions) < 3 THEN LimitNarrow
  ELSE LimitDefault

\* allFiles.slice(0, limit)
Slice(seq, from, to) == SubSeq(seq, from + 1, Min(to, Len(seq)))

PendingRecords_AllFiles(se) ==
  [k \in DOMAIN se.allFiles |->
     [path |-> se.allFiles[k].path, size |-> se.allFiles[k].size, status |-> "pending"]]

\* the records of filesToFetch.forEach(f => onFileUpdate({...})) (github.ts:177)
PendingRecords(se) ==
  [k \in DOMAIN se.filesToFetch |->
     [path |-> se.filesToFetch[k].path, size |-> se.filesToFetch[k].size, status |-> "pending"]]

\* github.ts:133-174
SelectFiles ==
  /\ sel.pc = "start"
  /\ LET filtered == FilterTree(sel.tree, sel.fetchAll, sel.allowedExtensions, sel.maxFileSize)
         allFiles == SortFiles(filtered)
         filesToFetch == Slice(allFiles, 0, limit(sel.fetchAll, sel.allowedExtensions))
     IN sel' = [sel EXCEPT
                  !.filtered = filtered,
                  !.allFiles = allFiles,
                  !.filesToFetch = filesToFetch,
                  !.pc = IF Len(filesToFetch) = 0 THEN "failed" ELSE "selected",
                  !.error = IF Len(filesToFetch) = 0
                              THEN "No analyzable code files found matching the criteria." ELSE ""]
  /\ UNCHANGED <<view, sess, aborted, nSessions, rt, rag, pu>>

\* github.ts:177-180
NotifyPending ==
  /\ sel.pc = "selected"
  /\ sel' = [sel EXCEPT !.pending = @ \o PendingRecords(sel), !.pc = "notified"]
  /\ UNCHANGED <<view, sess, aborted, nSessions, rt, rag, pu>>

\* the first iteration of the batch loop (github.ts:187-195)
StartDownload ==
  /\ sel.pc = "notified"
  /\ sel' = [sel EXCEPT
               !.requested = [k \in 1..Cardinality(BatchOf(0, Len(sel.filesToFetch))) |->
                                sel.filesToFetch[k].path],
               !.pc = "downloading"]
  /\ UNCHANGED <<view, sess, aborted, nSessions, rt, rag, pu>>

NextSelect == SelectFiles \/ NotifyPending \/ StartDownload

\* ------------------------------------------------- inputs of SpecSelect
MaxHead == 2            \* entries drawn freely from Catalogue at the head of a tree

\* tree entries as the tree listing reports them
Catalogue ==
  << [path |-> <<"R", "E", "A", "D", "M", "E", ".", "m", "d">>, type |-> "blob", size |-> 500],
     [path |-> <<"r", "e", "a", "d", "m", "e", ".", "m", "d", ".", "j", "s", "o", "n">>, type |-> "blob", size |-> 40],
     [path |-> <<"p", "k", "g", ".", "j", "s", "o", "n">>, type |-> "blob", size |-> 300],
     [path |-> <<"c", "i", ".", "y", "m", "l">>, type |-> "blob", size |-> 20],
     [path |-> <<"s", "r", "c", "/", "a", ".", "t", "s">>, type |-> "blob", size |-> 100],
     [path |-> <<"s", "r", "c", "/", "c", ".", "j", "s", "o", "n">>, type |-> "blob", size |-> 50],
     [path |-> <<"l", "i", "b", "/", "b", ".", "t", "s">>, type |-> "blob", size |-> 150000],
     [path |-> <<"l", "i", "b", "/", "n", ".", "t", "s">>, type |-> "blob", size |-> Undefined],
     [path |-> <<"m", ".", "t", "s">>, type |-> "blob", size |-> 2000],
     [path |-> <<"n", "o", "t", "e", "s", ".", "t", "x", "t">>, type |-> "blob", size |-> 10],
     [path |-> <<"y", "a", "r", "n", ".", "l", "o", "c", "k">>, type |-> "blob", size |-> 10],
     [path |-> <<"p", "a", "c", "k", "a", "g", "e", "-", "l", "o", "c", "k", ".", "j", "s", "o", "n">>, type |-> "blob", size |-> 10],
     [path |-> <<"n", "o", "d", "e", "_", "m", "o", "d", "u", "l", "e", "s", "/", "x", ".", "j", "s">>, type |-> "blob", size |-> 10],
     [path |-> <<"d", "i", "s", "t", "/", "o", ".", "j", "s">>, type |-> "blob", size |-> 10],
     [path |-> <<"b", "u", "i", "l", "d", "/", "o", ".", "j", "s">>, type |-> "blob", size |-> 10],
     [path |-> <<"a", "p", "p", ".", "m", "i", "n", ".", "j", "s">>, type |-> "blob", size |-> 10],
     [path |-> <<"l", "o", "g", "o", ".", "s", "v", "g">>, type |-> "blob", size |-> 10],
     [path |-> <<"i", ".", "p", "n", "g">>, type |-> "blob", size |-> 10],
     [path |-> <<"i", ".", "j", "p", "g">>, type |-> "blob", size |-> 10],
     [path |-> <<"i", ".", "i", "c", "o">>, type |-> "blob", size |-> 10],
     [path |-> <<"s", "r", "c">>, type |-> "tree", size |-> Undefined] >>

\* k further source files f1.ts, f2.ts, ..., each path one name token longer than "f"
Pad(k) == [j \in 1..k |-> [path |-> <<"f", ToString(j), ".", "t", "s">>,
                            type |-> "blob", size |-> 10]]

\* the sequences of at most n distinct catalogue entries
Heads(n) ==
  {[k \in DOMAIN h |-> Catalogue[h[k]]] :
     h \in {g \in UNION {[1..m -> DOMAIN Catalogue] : m \in 0..n} :
              \A a, b \in DOMAIN g : a # b => g[a] # g[b]}}

Trees ==
  Heads(MaxHead)
    \cup {h \o Pad(k) : h \in Heads(1), k \in {LimitDefault, LimitNarrow + 1}}
    \cup {Pad(LimitFetchAll + 1)}

ExtensionLists ==
  { <<>>, << <<".", "t", "s">> >>, << <<".", "t", "s">>, <<".", "j", "s", "o", "n">>, <<".", "m", "d">> >> }

SizeThresholds == {Undefined, 0, 1024}

InitSelect ==
  /\ InitFetch
  /\ rt = RtIdle
  /\ rag = RagIdle
  /\ pu = PuIdle
  /\ \E tree \in Trees, exts \in ExtensionLists, all \in BOOLEAN, maxSize \in SizeThresholds :
       sel = [SelIdle EXCEPT !.pc = "start", !.tree = tree, !.allowedExtensions = exts,
                             !.fetchAll = all, !.maxFileSize = maxSize]

SpecSelect == InitSelect /\ [][NextSelect]_vars

\* ------------------------------------------- corpus assembly and chunking
\* Text is a sequence of one-character strings; a number printed into a text
\* is one element.
MaxCorpusFiles == 2     \* files of one corpus

MaxTextLength(fetchAll) == IF fetchAll THEN 100000 ELSE 50000    \* github.ts:207
ChunkSize == 2000                                                 \* part_004:24-25

FileOpen == <<"-", "-", "-", " ", "F", "I", "L", "E", ":", " ">>
HeaderClose == <<" ", "-", "-", "-", "\n">>
FileClose == <<"\n", "-", "-", "-", " ", "E", "N", "D", " ", "O", "F", " ", "F", "I", "L", "E", " ", "-", "-", "-">>
Truncated == <<"\n", ".", ".", ".", "[", "T", "r", "u", "n", "c", "a", "t", "e", "d", "]", ".", ".", ".">>

\* the string a successful download contributes to results (github.ts:206-212)
FileRecord(path, text, fetchAll) ==
  LET content == IF Len(text) > MaxTextLength(fetchAll)
                   THEN SubSeq(text, 1, MaxTextLength(fetchAll)) \o Truncated
                   ELSE text
  IN FileOpen \o path \o HeaderClose \o content \o FileClose \o <<"\n", "\n">>

\* github.ts:228
Header(ownerRepo, branch, description, stars, language) ==
  <<"R", "e", "p", "o", "s", "i", "t", "o", "r", "y", ":", " ">> \o ownerRepo \o <<"\n", "B", "r", "a", "n", "c", "h", ":", " ">> \o branch
    \o <<"\n", "D", "e", "s", "c", "r", "i", "p", "t", "i", "o", "n", ":", " ">> \o (IF description # <<>> THEN description ELSE <<"N", "/", "A">>)
    \o <<"\n", "S", "t", "a", "r", "s", ":", " ">> \o stars \o <<"\n", "L", "a", "n", "g", "u", "a", "g", "e", ":", " ">> \o language \o <<"\n", "\n">>

\* results.join("")
RECURSIVE Join(_)
Join(results) == IF results = <<>> THEN <<>> ELSE Head(results) \o Join(Tail(results))

\* the least position from which pat occurs in text at or after from, 0 if none
IndexOf(text, pat, from) ==
  LET hits == {k \in from..(Len(text) - Len(pat) + 1) : SubSeq(text, k, k + Len(pat) - 1) = pat}
  IN IF hits = {} THEN 0 ELSE CHOOSE k \in hits : \A j \in hits : k <= j

\* /--- FILE: (.*?) ---\n([\s\S]*?)\n--- END OF FILE ---/ tried at position s
\* (part_004:12). The lazy (.*?) stops at the first " ---\n" and cannot cross a
\* line end; the lazy ([\s\S]*?) stops at the first "\n--- END OF FILE ---".
MatchAt(text, s) ==
  LET nameFrom == s + Len(FileOpen)
      p == IndexOf(text, HeaderClose, nameFrom)
      bodyFrom == p + Len(HeaderClose)
      q == IndexOf(text, FileClose, bodyFrom)
  IN IF /\ s + Len(FileOpen) - 1 <= Len(text)
        /\ SubSeq(text, s, s + Len(FileOpen) - 1) = FileOpen
        /\ p # 0
        /\ \A k \in nameFrom..(p - 1) : text[k] # "\n"
        /\ q # 0
       THEN [ok |-> TRUE, fileName |-> SubSeq(text, nameFrom, p - 1),
             content |-> SubSeq(text, bodyFrom, q - 1), lastIndex |-> q + Len(FileClose)]
       ELSE [ok |-> FALSE, fileName |-> <<>>, content |-> <<>>, lastIndex |-> 0]

ChunksOf_SplitAtThreshold(fileName, content, idx) ==
  IF Len(content) >= ChunkSize
    THEN [i \in 1..((Len(content) + ChunkSize - 1) \div ChunkSize) |->
            [id |-> "chunk-" \o ToString(idx + i - 1),
             fileName |-> fileName \o <<" ", "(", "P", "a", "r", "t", " ">> \o <<ToString(i)>> \o <<")">>,
             content |-> SubSeq(content, (i - 1) * ChunkSize + 1, Min(i * ChunkSize, Len(content)))]]
    ELSE << [id |-> "chunk-" \o ToString(idx), fileName |-> fileName, content |-> content] >>

\* the chunks pushed for one match, the first of them numbered idx (part_004:17-39)
ChunksOf(fileName, content, idx) ==
  IF Len(content) > ChunkSize
    THEN [i \in 1..((Len(content) + ChunkSize - 1) \div ChunkSize) |->
            [id |-> "chunk-" \o ToString(idx + i - 1),
             fileName |-> fileName \o <<" ", "(", "P", "a", "r", "t", " ">> \o <<ToString(i)>> \o <<")">>,
             content |-> SubSeq(content, (i - 1) * ChunkSize + 1, Min(i * ChunkSize, Len(content)))]]
    ELSE << [id |-> "chunk-" \o ToString(idx), fileName |-> fileName, content |-> content] >>

\* the while loop over regex.exec, which resumes at lastIndex (part_004:17-40)
RECURSIVE ExecLoop(_, _, _)
ExecLoop(text, lastIndex, idx) ==
  LET starts == {s \in lastIndex..Len(text) : MatchAt(text, s).ok}
  IN IF starts = {} THEN <<>>
     ELSE LET s == CHOOSE k \in starts : \A j \in starts : k <= j
              match == MatchAt(text, s)
              pushed == ChunksOf(match.fileName, match.content, idx)
          IN pushed \o ExecLoop(text, match.lastIndex, idx + Len(pushed))

\* part_004:10-42
chunkCode(fullCodeContext) == ExecLoop(fullCodeContext, 1, 0)

\* github.ts:212,228-233: the corpus of a session whose downloads all succeeded
Assemble ==
  /\ rt.pc = "start"
  /\ rt' = [rt EXCEPT
              !.corpus = Header(<<"o", "c", "t", "o", "/", "a", "l", "p", "h", "a">>, <<"d", "e", "v">>, rt.description, <<ToString(7)>>, <<"T", "y", "p", "e", "S", "c", "r", "i", "p", "t">>)
                           \o Join([k \in DOMAIN rt.files |->
                                      FileRecord(rt.files[k].path, rt.files[k].content, FALSE)]),
              !.pc = "assembled"]
  /\ UNCHANGED <<view, sess, aborted, nSessions, sel, rag, pu>>

\* part_004:48, chunkCode(codeContext)
ChunkCorpus ==
  /\ rt.pc = "assembled"
  /\ rt' = [rt EXCEPT !.chunks = chunkCode(rt.corpus), !.pc = "chunked"]
  /\ UNCHANGED <<view, sess, aborted, nSessions, sel, rag, pu>>

NextChunk == Assemble \/ ChunkCorpus

CorpusPaths == { <<"a", ".", "t", "s">>, <<"s", "r", "c", "/", "b", " ", "c", ".", "m", "d">>, <<"x", " ", "-", "-", "-">> }

CorpusTexts ==
  { <<>>, <<"a">>, <<"a", "\n", "b", "\n">>, <<"\n">>,
    <<"-", "-", "-", " ", "E", "N", "D", " ", "O", "F", " ", "F", "I", "L", "E", " ", "-", "-", "-">>,
    <<"a", "\n", "-", "-", "-", " ", "E", "N", "D", " ", "O", "F", " ", "F", "I", "L", "E", " ", "-", "-", "-", "\n", "b">>,
    <<"-", "-", "-", " ", "F", "I", "L", "E", ":", " ", "z", " ", "-", "-", "-", "\n", "q">> }

\* contents at and above the sub-chunk threshold, no two slices of one alike
Letters == <<"a", "b", "c", "d", "e", "f", "g">>
Fill(n) == [k \in 1..n |-> Letters[(k % 7) + 1]]
LongTexts == {Fill(n) : n \in {ChunkSize, ChunkSize + 1, 2 * ChunkSize, 2 * ChunkSize + 1}}

Descriptions == { <<>>, <<"t", "o", "o", "l">> }

\* the sequences of at most n files with unique paths
CorpusFiles(n) ==
  {f \in UNION {[1..m -> [path : CorpusPaths, content : CorpusTexts \cup LongTexts]] : m \in 0..n} :
     \A a, b \in DOMAIN f : a # b => f[a].path # f[b].path}

InitChunk ==
  /\ InitFetch
  /\ sel = SelIdle
  /\ rag = RagIdle
  /\ pu = PuIdle
  /\ \E files \in CorpusFiles(MaxCorpusFiles), description \in Descriptions :
       rt = [RtIdle EXCEPT !.pc = "start", !.files = files, !.description = description]

SpecChunk == InitChunk /\ [][NextChunk]_vars

\* ====================================================== semantic index
MaxChunks == 3          \* chunks of the corpus SpecRag indexes

\* the status line of the indexer's progress callback (RepoView.tsx:569)
Indexing(curr, total) == [msg |-> "Indexing semantic vectors", k |-> curr, n |-> total]

\* chunkCode(codeContext) on the view's corpus: one chunk per file record, each
\* remembering the corpus it was cut from
ViewChunks(codeContext) ==
  [k \in DOMAIN codeContext.files |->
     [id |-> "chunk-" \o ToString(k - 1), fileName |-> codeContext.files[k],
      corpus |-> codeContext.owner, embedding |-> NoEmbedding]]

Notification_Late(x) ==
  [current |-> x.i, total |-> Len(x.chunks), issued |-> x.issued, settled |-> Len(x.outcomes)]

\* onProgress(i + 1, chunks.length) (part_004:54)
Notification(x) ==
  [current |-> x.i + 1, total |-> Len(x.chunks), issued |-> x.issued, settled |-> Len(x.outcomes)]

\* the head of the loop body: the progress call, then the request (part_004:53-56)
StartIteration(st) ==
  [st EXCEPT !.ix.progress = Append(@, Notification(st.ix)),
             !.ix.issued = @ + 1,
             !.ix.pc = "embedding",
             !.vw.fetchStatus = Indexing(st.ix.i + 1, Len(st.ix.chunks))]

\* indexCodebase returns and handleIndexCodebase finishes (RepoView.tsx:571-577)
FinishIndex(st) ==
  [st EXCEPT !.ix.pc = "done",
             !.vw.indexedChunks = st.ix.indexedChunks,
             !.vw.fetchStatus = Msg("Semantic Index Ready."),
             !.vw.isIndexing = FALSE]

\* for (let i = 0; i < chunks.length; i++) at its test (part_004:53)
IndexLoop(st) == IF st.ix.i < Len(st.ix.chunks) THEN StartIteration(st) ELSE FinishIndex(st)

\* generateEmbedding threw: no vector came back
Rejected == <<>>

Pushed_DropsFailed(x, outcome) ==
  IF outcome = Rejected THEN x.indexedChunks
  ELSE Append(x.indexedChunks, [x.chunks[x.i + 1] EXCEPT !.embedding = outcome])

\* indexedChunks.push(...) of the try and of the catch block (part_004:56-61)
Pushed(x, outcome) ==
  Append(x.indexedChunks,
         IF outcome = Rejected THEN x.chunks[x.i + 1]
         ELSE [x.chunks[x.i + 1] EXCEPT !.embedding = outcome])

\* The user presses Generate Vectors (RepoView.tsx:564-578, part_004:44-56).
\* The button is shown while the index is empty and disabled while indexing
\* (RepoView.tsx:1178-1183).
HandleIndexCodebase ==
  /\ view.codeContext # NoContent
  /\ view.indexedChunks = <<>>
  /\ ~view.isIndexing
  /\ LET st0 == [ix |-> [RagIdle.ix EXCEPT !.chunks = ViewChunks(view.codeContext)],
                 vw |-> [view EXCEPT !.isIndexing = TRUE]]
         st1 == IndexLoop(st0)
     IN /\ rag' = [rag EXCEPT !.ix = st1.ix]
        /\ view' = st1.vw
  /\ UNCHANGED <<sess, aborted, nSessions, sel, rt, pu>>

\* generateEmbedding settles for the chunk in flight: with a vector, or by
\* throwing (part_004:56-63, gemini.ts:295-305); the 50 ms timer is then set.
EmbedSettle(outcome) ==
  /\ rag.ix.pc = "embedding"
  /\ rag' = [rag EXCEPT !.ix.indexedChunks = Pushed(rag.ix, outcome),
                        !.ix.outcomes = Append(@, outcome),
                        !.ix.pc = "delay"]
  /\ UNCHANGED <<view, sess, aborted, nSessions, sel, rt, pu>>

\* The 50 ms timer fires: i++ and the next iteration, or the return (part_004:53-66).
DelayElapsed ==
  /\ rag.ix.pc = "delay"
  /\ LET st1 == IndexLoop([ix |-> [rag.ix EXCEPT !.i = @ + 1], vw |-> view])
     IN /\ rag' = [rag EXCEPT !.ix = st1.ix]
        /\ view' = st1.vw
  /\ UNCHANGED <<sess, aborted, nSessions, sel, rt, pu>>

\* --------------------------------------------------------------- search
RECURSIVE SumOver(_, _)
SumOver(f, n) == IF n = 0 THEN 0 ELSE SumOver(f, n - 1) + f[n]

\* part_004:69-81. The three sums of the loop; the quotient
\* dotProduct / (sqrt(magnitudeA) * sqrt(magnitudeB)) is left to the
\* comparison, which is exact on integers.
cosineSimilarity(vecA, vecB) ==
  [dotProduct |-> SumOver([k \in DOMAIN vecA |-> vecA[k] * vecB[k]], Len(vecA)),
   magnitudeA |-> SumOver([k \in DOMAIN vecA |-> vecA[k] * vecA[k]], Len(vecA)),
   magnitudeB |-> SumOver([k \in DOMAIN vecA |-> vecB[k] * vecB[k]], Len(vecA))]

\* x < y for two results of cosineSimilarity, as numbers
ScoreLess(x, y) ==
  LET nx == x.magnitudeA * x.magnitudeB
      ny == y.magnitudeA * y.magnitudeB
      xx == x.dotProduct * x.dotProduct * ny
      yy == y.dotProduct * y.dotProduct * nx
  IN IF x.dotProduct < 0 /\ y.dotProduct >= 0 THEN TRUE
     ELSE IF x.dotProduct >= 0 /\ y.dotProduct < 0 THEN FALSE
     ELSE IF x.dotProduct >= 0 THEN xx < yy
     ELSE xx > yy

\* indexedChunks.filter(c => c.embedding).map(chunk => ({...chunk, score}))
\* (part_004:91-96)
Scored(index, queryEmbedding) ==
  LET embedded == SelectSeq(index, LAMBDA c : c.embedding # NoEmbedding)
  IN [k \in DOMAIN embedded |->
        [id |-> embedded[k].id, fileName |-> embedded[k].fileName,
         corpus |-> embedded[k].corpus, embedding |-> embedded[k].embedding,
         score |-> cosineSimilarity(queryEmbedding, embedded[k].embedding)]]

SortByScore_Ascending(scored) ==
  LET before(a, b) == \/ ScoreLess(scored[a].score, scored[b].score)
                      \/ ~ScoreLess(scored[b].score, scored[a].score) /\ a < b
      rank(k) == 1 + Cardinality({j \in DOMAIN scored : before(j, k)})
  IN [p \in DOMAIN scored |-> scored[CHOOSE k \in DOMAIN scored : rank(k) = p]]

\* scored.sort((a, b) => b.score - a.score) (part_004:98): higher scores
\* first; the sort is stable, so equal scores keep their order.
SortByScore(scored) ==
  LET before(a, b) == \/ ScoreLess(scored[b].score, scored[a].score)
                      \/ ~ScoreLess(scored[a].score, scored[b].score) /\ a < b
      rank(k) == 1 + Cardinality({j \in DOMAIN scored : before(j, k)})
  IN [p \in DOMAIN scored |-> scored[CHOOSE k \in DOMAIN scored : rank(k) = p]]

AnyEmbedded_NonEmpty(index) == index # <<>>

\* indexedChunks.some(c => c.embedding) (part_004:88)
AnyEmbedded(index) == \E k \in DOMAIN index : index[k].embedding # NoEmbedding

CaughtResults_Raises(x) == [x EXCEPT !.raised = TRUE, !.pc = "done"]

\* catch (e) { console.error(...); return []; } (part_004:100-103)
CaughtResults(x) == [x EXCEPT !.results = <<>>, !.pc = "done"]

\* the rest of handleSemanticSearch once searchCodebase has returned
\* (RepoView.tsx:585-590)
SearchReturned(vw, x) ==
  IF x.byHandler
    THEN [vw EXCEPT !.semanticResults = IF x.raised THEN @ ELSE x.results,
                    !.isSearchingRAG = FALSE]
    ELSE vw

\* searchCodebase(query, indexedChunks, topK) up to its await (part_004:83-90),
\* and the caller's continuation when it returns at once
Search(vw, topK, byHandler) ==
  LET x0 == [RagIdle.sr EXCEPT !.byHandler = byHandler, !.index = vw.indexedChunks,
                               !.context = vw.codeContext.owner, !.topK = topK]
      x1 == IF AnyEmbedded(x0.index)
              THEN [x0 EXCEPT !.pc = "embedding", !.queryRequests = @ + 1]
              ELSE [x0 EXCEPT !.pc = "done", !.results = <<>>]
  IN [sr |-> x1,
      vw |-> IF x1.pc = "done" THEN SearchReturned(vw, x1)
             ELSE [vw EXCEPT !.isSearchingRAG = byHandler \/ @]]

\* searchCodebase called with a caller-chosen topK
SearchCodebase(topK) ==
  /\ rag.sr.pc # "embedding"
  /\ rag' = [rag EXCEPT !.sr = Search(view, topK, FALSE).sr]
  /\ view' = Search(view, topK, FALSE).vw
  /\ UNCHANGED <<sess, aborted, nSessions, sel, rt, pu>>

\* The user runs a semantic search (RepoView.tsx:580-591); the query is not empty.
HandleSemanticSearch ==
  /\ rag.sr.pc # "embedding"
  /\ view.indexedChunks # <<>>
  /\ rag' = [rag EXCEPT !.sr = Search(view, 4, TRUE).sr]
  /\ view' = Search(view, 4, TRUE).vw
  /\ UNCHANGED <<sess, aborted, nSessions, sel, rt, pu>>

\* generateEmbedding(query) settles (part_004:90-103)
QuerySettle(outcome) ==
  /\ rag.sr.pc = "embedding"
  /\ LET x1 == IF outcome = Rejected
                 THEN CaughtResults(rag.sr)
                 ELSE [rag.sr EXCEPT
                         !.query = outcome,
                         !.results = Slice(SortByScore(Scored(rag.sr.index, outcome)), 0, rag.sr.topK),
                         !.pc = "done"]
     IN /\ rag' = [rag EXCEPT !.sr = x1]
        /\ view' = SearchReturned(view, x1)
  /\ UNCHANGED <<sess, aborted, nSessions, sel, rt, pu>>

\* the embeddings the service answers with, and the topK values of direct calls
\* (3 is the default of the parameter)
Vectors == { <<1, 0>>, <<2, 0>>, <<0, 1>>, <<-1, 1>> }
TopKs == {1, 3}

NextRag(vectors, topKs) ==
  \/ HandleIndexCodebase
  \/ \E outcome \in vectors \cup {Rejected} : EmbedSettle(outcome)
  \/ DelayElapsed
  \/ HandleSemanticSearch
  \/ \E topK \in topKs : SearchCodebase(topK)
  \/ \E outcome \in vectors \cup {Rejected} : QuerySettle(outcome)

\* a corpus of n file records in the context pane, no fetch session running
InitRag ==
  /\ \E n \in 1..MaxChunks :
       view = [InitView EXCEPT !.codeContext = [owner |-> 0, files |-> [k \in 1..n |-> k]]]
  /\ sess = [s \in Sessions |-> InitSession]
  /\ aborted = [s \in Sessions |-> FALSE]
  /\ nSessions = 0
  /\ sel = SelIdle
  /\ rt = RtIdle
  /\ rag = RagIdle
  /\ pu = PuIdle

SpecRag == InitRag /\ [][NextRag(Vectors, TopKs)]_vars

\* ------------------------------------------- the index beside the fetches
\* The user confirms Clear (RepoView.tsx:930-950).
ClearInput ==
  /\ view' = [view EXCEPT !.codeContext = NoContent,
                          !.fetchStatus = Msg(""),
                          !.fetchProgress = 0,
                          !.activeRepo = 0,
                          !.commits = 0,
                          !.fetchedFiles = <<>>,
                          !.indexedChunks = <<>>]
  /\ UNCHANGED <<sess, aborted, nSessions, sel, rt, rag, pu>>

MaxFilesIndex == 1      \* files of a fetch session beside which the index is built

\* the one embedding the service answers with here
UnitVector == <<1, 0>>

NextIndexView ==
  \/ NextB(MaxSessions, MaxFilesIndex, {"octo/alpha"})
  \/ HandleIndexCodebase
  \/ \E outcome \in {UnitVector, Rejected} : EmbedSettle(outcome)
  \/ DelayElapsed
  \/ HandleSemanticSearch
  \/ \E outcome \in {UnitVector, Rejected} : QuerySettle(outcome)
  \/ ClearInput
SpecIndexView == Init /\ [][NextIndexView]_vars

\* =========================================================== URL parser
\* github.ts:5, new URL(url): the scheme, the authority and the path of the
\* string, read by the URL parser's states. Strings are sequences of
\* characters. Not followed here: percent-encoding, "\" read as "/", IPv4 and
\* IPv6 hosts, the range of a port, the file scheme, leading and trailing
\* spaces; no string explored below has any of them.
UpperCase == <<"A", "B", "C", "D", "E", "F", "G", "H", "I", "J", "K", "L", "M", "N", "O", "P", "Q", "R", "S", "T", "U", "V", "W", "X", "Y", "Z">>
LowerCase == <<"a", "b", "c", "d", "e", "f", "g", "h", "i", "j", "k", "l", "m", "n", "o", "p", "q", "r", "s", "t", "u", "v", "w", "x", "y", "z">>
Digits == {"0", "1", "2", "3", "4", "5", "6", "7", "8", "9"}
IsAlpha(c) == \E k \in 1..26 : c = UpperCase[k] \/ c = LowerCase[k]

toLowerCase(str) ==
  [k \in 1..Len(str) |->
     IF \E j \in 1..26 : str[k] = UpperCase[j]
       THEN LowerCase[CHOOSE j \in 1..26 : str[k] = UpperCase[j]]
       ELSE str[k]]

\* the first position at or after from that holds one of stops, else Len + 1
FirstOf(str, from, stops) ==
  LET hits == {k \in from..Len(str) : str[k] \in stops}
  IN IF hits = {} THEN Len(str) + 1 ELSE CHOOSE k \in hits : \A j \in hits : k <= j

\* the last position that holds c, else 0
LastOf(str, c) ==
  LET hits == {k \in 1..Len(str) : str[k] = c}
  IN IF hits = {} THEN 0 ELSE CHOOSE k \in hits : \A j \in hits : j <= k

\* the first position at or after from that does not hold a "/"
SkipSlashes(str, from) ==
  LET rest == {k \in from..Len(str) : str[k] # "/"}
  IN IF rest = {} THEN Len(str) + 1 ELSE CHOOSE k \in rest : \A j \in rest : k <= j

\* String.prototype.split with a one-character separator
RECURSIVE split(_, _)
split(str, sep) ==
  LET at == FirstOf(str, 1, {sep})
  IN IF at > Len(str)
       THEN <<str>>
       ELSE <<SubSeq(str, 1, at - 1)>> \o split(SubSeq(str, at + 1, Len(str)), sep)

\* new URL throws a TypeError for a string it cannot parse
TypeError == [name |-> "TypeError"]

SpecialSchemes == {<<"h", "t", "t", "p">>, <<"h", "t", "t", "p", "s">>, <<"f", "t", "p">>, <<"w", "s">>, <<"w", "s", "s">>}

\* a character no host of a special scheme may hold
ForbiddenHost == {" "}

\* The path state: the segments written between the "/" of the path, from
\* the k-th on, added to path. ".." takes the last segment back, "." adds
\* none, and either leaves an empty segment when it is the last one.
RECURSIVE PathState(_, _, _)
PathState(segs, k, path) ==
  IF k > Len(segs) THEN path
  ELSE LET seg == segs[k]
           closing == IF k = Len(segs) THEN << <<>> >> ELSE <<>>
           next == IF seg = <<".", ".">>
                     THEN (IF path = <<>> THEN path ELSE SubSeq(path, 1, Len(path) - 1)) \o closing
                     ELSE IF seg = <<".">>
                       THEN path \o closing
                       ELSE Append(path, seg)
       IN PathState(segs, k + 1, next)

\* url.pathname: the path of the string from position from (a "/", a "?", a
\* "#" or its end) up to the query or fragment, every segment after a "/".
\* A special scheme has the path "/" where none is written.
Pathname(str, from, special) ==
  LET end == FirstOf(str, from, {"?", "#"})
      path == IF from < end
                THEN PathState(split(SubSeq(str, from + 1, end - 1), "/"), 1, <<>>)
                ELSE IF special THEN << <<>> >> ELSE <<>>
  IN Join([k \in 1..Len(path) |-> <<"/">> \o path[k]])

\* The authority state and the host state: the authority runs from position
\* from to the next "/", "?" or "#"; what precedes its last "@" is the
\* credentials, what follows the ":" after the host is the port. The host of
\* a special scheme is lower-cased and may not be empty.
Authority(str, from, special) ==
  LET end == FirstOf(str, from, {"/", "?", "#"})
      authority == SubSeq(str, from, end - 1)
      at == LastOf(authority, "@")
      hostport == SubSeq(authority, at + 1, Len(authority))
      colon == FirstOf(hostport, 1, {":"})
      host == SubSeq(hostport, 1, colon - 1)
      port == SubSeq(hostport, colon + 1, Len(hostport))
  IN IF host = <<>> /\ (special \/ at > 0 \/ colon <= Len(hostport)) THEN TypeError
     ELSE IF \E k \in 1..Len(port) : port[k] \notin Digits THEN TypeError
     ELSE IF special /\ \E k \in 1..Len(host) : host[k] \in ForbiddenHost THEN TypeError
     ELSE [ hostname |-> IF special THEN toLowerCase(host) ELSE host,
            pathname |-> Pathname(str, end, special) ]

\* new URL(url) without a base: TypeError, or the hostname and the pathname
URL(url) ==
  LET colon == FirstOf(url, 1, {":"})
      scheme == toLowerCase(SubSeq(url, 1, colon - 1))
      hasScheme == /\ 1 < colon
                   /\ colon <= Len(url)
                   /\ IsAlpha(url[1])
                   /\ \A k \in 2..(colon - 1) :
                        IsAlpha(url[k]) \/ url[k] \in Digits \cup {"+", "-", "."}
  IN IF ~hasScheme THEN TypeError
     ELSE IF scheme \in SpecialSchemes
       THEN Authority(url, SkipSlashes(url, colon + 1), TRUE)
     ELSE IF SubSeq(url, colon + 1, colon + 2) = <<"/", "/">>
       THEN Authority(url, colon + 3, FALSE)
     ELSE IF colon < Len(url) /\ url[colon + 1] = "/"
       THEN [hostname |-> <<>>, pathname |-> Pathname(url, colon + 1, FALSE)]
     ELSE [hostname |-> <<>>,
           pathname |-> SubSeq(url, colon + 1, FirstOf(url, colon + 1, {"?", "#"}) - 1)]

\* -------------------------------------------------------- parseGithubUrl
GithubCom == <<"g", "i", "t", "h", "u", "b", ".", "c", "o", "m">>
DotGit == <<".", "g", "i", "t">>

\* what a call gave back: the value it returned, or that it threw
Returned(value) == [value |-> value, raised |-> FALSE]
Thrown == [value |-> Null, raised |-> TRUE]

\* github.ts:14-17
RepoName_KeepSuffix(repo) == repo

RepoName(repo) ==
  IF EndsWith(repo, DotGit) THEN SubSeq(repo, 1, Len(repo) - 4) ELSE repo

\* github.ts:20-22, catch { return null; }
Catch(out) == IF out.raised THEN Returned(Null) ELSE out

\* github.ts:3-23
parseGithubUrl(url) ==
  LET urlObj == URL(url)
      NonEmpty(part) == part # <<>>
  IN Catch(IF urlObj = TypeError THEN Thrown
           ELSE IF urlObj.hostname # GithubCom THEN Returned(Null)
           ELSE LET parts == SelectSeq(split(urlObj.pathname, "/"), NonEmpty)
                IN IF Len(parts) < 2 THEN Returned(Null)
                   ELSE Returned([owner |-> parts[1], repo |-> RepoName(parts[2])]))

ParseGithubUrl ==
  /\ pu.pc = "start"
  /\ LET out == parseGithubUrl(pu.url)
     IN pu' = [pu EXCEPT !.value = out.value, !.raised = out.raised, !.pc = "parsed"]
  /\ UNCHANGED <<view, sess, aborted, nSessions, sel, rt, rag>>

NextUrl == ParseGithubUrl

\* --------------------------------------------------------------- inputs
MaxSegments == 3        \* path segments written in one URL

\* scheme and authority with github.com as the host
GithubOrigins ==
  { <<"h", "t", "t", "p", "s", ":", "/", "/", "g", "i", "t", "h", "u", "b", ".", "c", "o", "m">>,
    <<"h", "t", "t", "p", ":", "/", "/", "g", "i", "t", "h", "u", "b", ".", "c", "o", "m">>,
    <<"h", "t", "t", "p", "s", ":", "/", "/", "G", "i", "t", "H", "u", "b", ".", "c", "o", "m">>,
    <<"h", "t", "t", "p", "s", ":", "/", "/", "g", "i", "t", "h", "u", "b", ".", "c", "o", "m", ":", "4", "4", "3">>,
    <<"s", "s", "h", ":", "/", "/", "g", "i", "t", "@", "g", "i", "t", "h", "u", "b", ".", "c", "o", "m">> }

\* with another host, or none
OtherOrigins ==
  { <<"h", "t", "t", "p", "s", ":", "/", "/", "w", "w", "w", ".", "g", "i", "t", "h", "u", "b", ".", "c", "o", "m">>,
    <<"h", "t", "t", "p", "s", ":", "/", "/", "g", "i", "t", "l", "a", "b", ".", "c", "o", "m">>,
    <<"h", "t", "t", "p", "s", ":", "/", "/", "g", "i", "t", "h", "u", "b", ".", "c", "o", "m", "@", "g", "i", "t", "l", "a", "b", ".", "c", "o", "m">>,
    <<"h", "t", "t", "p", "s", ":", "/", "/", "g", "i", "t", " ", "h", "u", "b", ".", "c", "o", "m">>,
    <<"g", "i", "t", "h", "u", "b", ".", "c", "o", "m">>,
    <<"h", "t", "t", "p", "s", ":", "/", "/">>,
    <<>> }

Segments ==
  { <<>>, <<"o", "c", "t", "o">>, <<"a", "l", "p", "h", "a">>, <<"a", "l", "p", "h", "a", ".", "g", "i", "t">>, <<".", "g", "i", "t">>, <<"t", "r", "e", "e">>, <<".", ".">> }

Tails == { <<>>, <<"?", "p", "=", "x", "/", "y">>, <<"#", "a", "/", "b">> }

InitUrl ==
  /\ InitFetch
  /\ sel = SelIdle
  /\ rt = RtIdle
  /\ rag = RagIdle
  /\ \E origin \in GithubOrigins \cup OtherOrigins, tail \in Tails,
        segments \in UNION {[1..n -> Segments] : n \in 0..MaxSegments} :
       pu = [PuIdle EXCEPT
               !.pc = "start", !.origin = origin, !.segments = segments, !.tail = tail,
               !.url = origin \o Join([k \in 1..Len(segments) |-> <<"/">> \o segments[k]]) \o tail]

SpecUrl == InitUrl /\ [][NextUrl]_vars

\* ------------------------------------------------------------ vocabulary
Finished(s) == sess[s].pc \in {"returned", "failed"}
Files(s) == DOMAIN sess[s].req
InFlight(s) == {f \in Files(s) : sess[s].req[f] \in {"fetching", "reading"}}
Succeeded(s) == {f \in Files(s) : sess[s].req[f] = "ok"}
Failed(s) == {f \in Files(s) : sess[s].req[f] = "fail"}
Dropped(s) == {f \in Files(s) : sess[s].req[f] = "abort"}
Settled(s) == Succeeded(s) \cup Failed(s) \cup Dropped(s)
BatchNo(f) == (f - 1) \div batchSize
Range(q) == {q[k] : k \in DOMAIN q}
\* the files of 1..n that satisfy Keep, in ascending (priority) order
InOrder(n, Keep(_)) == SelectSeq([k \in 1..n |-> k], Keep)
StatusIn(list, f) == {list[k].status : k \in {j \in DOMAIN list : list[j].path = f}}

\* ------------------------------------------------------------------- C1
\* C1: at most batchSize raw-content requests are in flight, and a request
\* of a later batch exists only when every request of every earlier batch
\* has settled.
C1_BoundedBatches ==
  \A s \in Sessions :
    /\ Cardinality(InFlight(s)) <= batchSize
    /\ \A f \in Files(s), g \in Files(s) :
         (sess[s].req[f] # "none" /\ BatchNo(g) < BatchNo(f))
           => sess[s].req[g] \in {"ok", "fail", "abort"}

\* a full second batch is in flight
C1_Witness ==
  /\ Cardinality(InFlight(1)) = batchSize
  /\ \A f \in InFlight(1) : BatchNo(f) = 1

\* ------------------------------------------------------------------- C2
\* C2: every raw-content request is issued in a step that starts and ends
\* with the session's signal not aborted.
C2_NoIssueAfterAbort ==
  [][\A s \in Sessions : \A f \in DOMAIN sess'[s].req :
       (/\ sess'[s].req[f] = "fetching"
        /\ (f \notin Files(s) \/ sess[s].req[f] = "none"))
       => (~aborted[s] /\ ~aborted'[s])]_vars

\* a cancelled session has ended with a batch dropped and a batch never issued
C2_Witness ==
  /\ aborted[1]
  /\ Finished(1)
  /\ Dropped(1) # {}
  /\ \E f \in Files(1) : sess[1].req[f] = "none"

\* ------------------------------------------------------------------- C3
\* The session was cancelled after batch 1 of 3 fully loaded and before any
\* request of batch 2 settled.
CancelledAfterBatch1(s) ==
  /\ Finished(s)
  /\ aborted[s]
  /\ sess[s].n > 2 * batchSize
  /\ \A f \in Files(s) :
       sess[s].req[f] = (CASE BatchNo(f) = 0 -> "ok"
                           [] BatchNo(f) = 1 -> "abort"
                           [] OTHER -> "none")

\* C3: such a session returns (no error), its corpus holds exactly batch 1's
\* files, and the fetch status shown is the cancelled one.
C3_CancelledStatus ==
  CancelledAfterBatch1(1) =>
    /\ sess[1].pc = "returned"
    /\ view.codeContext.files = [k \in 1..batchSize |-> k]
    /\ view.fetchStatus = Msg("Fetch cancelled by user.")

\* ------------------------------------------------------------------- C4
\* C4: an uncancelled download in which at least one file succeeded returns,
\* its corpus holds a record for exactly the files that succeeded, and every
\* failed file has status 'error'.
C4_PartialSuccess ==
  \A s \in Sessions :
    (Finished(s) /\ ~aborted[s] /\ Succeeded(s) # {}) =>
      /\ sess[s].pc = "returned"
      /\ Range(sess[s].results) = Succeeded(s)
      /\ Len(sess[s].results) = Cardinality(Succeeded(s))
      /\ (view.codeContext.owner = s => view.codeContext.files = sess[s].results)
      /\ \A f \in Failed(s) : sess[s].emitted[f] = "error"
      /\ (view.activeRepo = s =>
            \A f \in Failed(s) : StatusIn(view.fetchedFiles, f) = {"error"})

\* 8 files: the first batch of 5 succeeded, the other 3 failed
C4_Witness ==
  /\ sess[1].pc = "returned"
  /\ sess[1].n = 8
  /\ Succeeded(1) = 1..5
  /\ Failed(1) = 6..8
  /\ Len(view.codeContext.files) = 5

\* ------------------------------------------------------------------- C5
\* C5: a session that reached the download fails (with DownloadFailed)
\* exactly when no file succeeded and its signal is not aborted.
C5_DownloadFailedIff ==
  \A s \in Sessions :
    (Finished(s) /\ sess[s].n > 0) =>
      /\ (sess[s].pc = "failed") <=> (Succeeded(s) = {} /\ ~aborted[s])
      /\ (sess[s].pc = "failed") =>
           sess[s].error = "Failed to download raw file contents."

\* a cancelled session returned normally with no file
C5_Witness ==
  /\ sess[1].pc = "returned"
  /\ aborted[1]
  /\ sess[1].n > 0
  /\ Succeeded(1) = {}
  /\ view.codeContext = [owner |-> 1, files |-> <<>>]

\* ------------------------------------------------------------------- C6
\* C6: the file records of the corpus are the succeeded files in the order
\* of the selected file list, whatever the order of completion.
C6_PriorityOrder ==
  \A s \in Sessions :
    sess[s].pc = "returned" =>
      /\ sess[s].results = InOrder(sess[s].n, LAMBDA f : f \in Succeeded(s))
      /\ (view.codeContext.owner = s =>
            view.codeContext.files = InOrder(sess[s].n, LAMBDA f : f \in Succeeded(s)))

\* a corpus of several files, one of which loaded before an earlier file of its batch
C6_Witness ==
  /\ sess[1].pc = "returned"
  /\ sess[1].inverted
  /\ Len(view.codeContext.files) >= 2

\* ------------------------------------------------------------------- C7
\* the result state shared by the fetch sessions of the view
SharedResult ==
  <<view.codeContext, view.activeRepo, view.fetchedFiles, view.fetchStatus,
    view.isFetchingRepo, view.abortControllerRef>>

Active(s) == sess[s].pc \in {"meta", "tree", "download"}

\* C7: a step that starts a session leaves every still active earlier
\* session aborted, and a step of a session that has been superseded changes
\* nothing of the shared result state while the newest session is running.
C7_SupersededWritesNothing ==
  [][/\ nSessions' # nSessions =>
          \A s \in 1..nSessions : Active(s) => aborted'[s]
     /\ \A s \in Sessions :
          (s < nSessions /\ Active(nSessions) /\ sess'[s] # sess[s])
            => SharedResult' = SharedResult]_vars

\* ------------------------------------------------------------------- C8
\* C8 as stated: every fetch settled as a success or a failure has a
\* terminal status and has triggered one progress notification, whose
\* count is the number of fetches settled so far.
C8_NotifiesEverySettle ==
  \A s \in Sessions :
    LET done == Cardinality(Succeeded(s)) + Cardinality(Failed(s))
    IN /\ \A f \in Succeeded(s) \cup Failed(s) : sess[s].emitted[f] \in {"success", "error"}
       /\ sess[s].notified = done
       /\ done > 0 => sess[s].lastProgress = Downloading(done, sess[s].n)

\* C8 amended: a success marks the file 'success' and triggers the
\* notification loadedCount/total, loadedCount being the number of files
\* loaded so far; a failure marks the file 'error' and notifies nothing.
C8_NotifiesEveryLoad ==
  \A s \in Sessions :
    LET loaded == Cardinality(Succeeded(s))
    IN /\ \A f \in Succeeded(s) : sess[s].emitted[f] = "success"
       /\ \A f \in Failed(s) : sess[s].emitted[f] = "error"
       /\ sess[s].loadedCount = loaded
       /\ sess[s].notified = loaded
       /\ loaded > 0 => sess[s].lastProgress = Downloading(loaded, sess[s].n)

\* failures on both sides of a success, the session still downloading
C8_Witness ==
  /\ sess[1].pc = "download"
  /\ Cardinality(Succeeded(1)) = 2
  /\ Cardinality(Failed(1)) = 2
  /\ sess[1].lastProgress.k = 2

\* ------------------------------------------------------------------- C9
\* C9: a request rejected by the abort leaves its file 'pending', with no
\* terminal update and no record; any other failure marks the file 'error';
\* and no rejection ends the session while requests of its batch are pending.
C9_AbortDropped ==
  \A s \in Sessions :
    /\ \A f \in Dropped(s) :
         /\ sess[s].emitted[f] = "pending"
         /\ sess[s].nTerminal[f] = 0
         /\ sess[s].ret[f] = "null"
         /\ f \notin Range(sess[s].results)
         /\ (view.abortControllerRef = s => StatusIn(view.fetchedFiles, f) = {"pending"})
    /\ \A f \in Failed(s) :
         /\ sess[s].emitted[f] = "error"
         /\ sess[s].ret[f] = "null"
         /\ f \notin Range(sess[s].results)
    /\ Finished(s) => InFlight(s) = {}
    /\ (InFlight(s) # {} /\ Settled(s) # {}) => sess[s].pc = "download"

\* one request failed, one was dropped by the abort, a third is still pending
C9_Witness ==
  /\ Failed(1) # {}
  /\ Dropped(1) # {}
  /\ InFlight(1) # {}

\* ------------------------------------------------------------------ C10
Terminal == {"success", "error"}

\* C10: a file's status only moves from pending to success or error, by one
\* terminal update, and never changes afterwards; when an uncancelled
\* session has finished its download no selected file is still pending,
\* in the session's own updates and in the view's file-status list.
C10_StatusLifecycle ==
  /\ [](\A s \in Sessions :
          /\ \A f \in DOMAIN sess[s].emitted :
               /\ sess[s].emitted[f] \in {"pending"} \cup Terminal
               /\ sess[s].nTerminal[f] = IF sess[s].emitted[f] \in Terminal THEN 1 ELSE 0
          /\ (Finished(s) /\ ~aborted[s] /\ sess[s].n > 0) =>
               /\ \A f \in DOMAIN sess[s].emitted : sess[s].emitted[f] \in Terminal
               /\ (nSessions = s =>
                     /\ Len(view.fetchedFiles) = sess[s].n
                     /\ \A k \in DOMAIN view.fetchedFiles :
                          view.fetchedFiles[k].status \in Terminal))
  /\ [][\A s \in Sessions : \A f \in DOMAIN sess[s].emitted :
          /\ sess[s].emitted[f] \in Terminal => sess'[s].emitted[f] = sess[s].emitted[f]
          /\ sess'[s].emitted[f] # sess[s].emitted[f] =>
               (sess[s].emitted[f] = "pending" /\ sess'[s].emitted[f] \in Terminal)]_vars

\* an uncancelled session over two batches finished with successes and errors
C10_Witness ==
  /\ Finished(1)
  /\ ~aborted[1]
  /\ sess[1].n > batchSize
  /\ \E k \in DOMAIN view.fetchedFiles : view.fetchedFiles[k].status = "success"
  /\ \E k \in DOMAIN view.fetchedFiles : view.fetchedFiles[k].status = "error"
\* ------------------------------------------------------------------ C12
\* C12: a metadata 404 fails with RepoNotFound, a metadata 403 with
\* RateLimited, any other metadata non-2xx with ApiError carrying the status,
\* and a tree 404 with BranchNotFound naming the branch, not RepoNotFound.
C12_LookupFailures ==
  \A s \in Sessions :
    /\ sess[s].metaStatus \notin {0, 200} =>
         /\ sess[s].pc = "failed"
         /\ sess[s].error =
              (CASE sess[s].metaStatus = 404 -> "Repository not found."
                 [] sess[s].metaStatus = 403 -> "GitHub API rate limit exceeded."
                 [] OTHER -> "GitHub API Error (" \o ToString(sess[s].metaStatus) \o ")")
    /\ sess[s].treeStatus = 404 =>
         /\ sess[s].pc = "failed"
         /\ sess[s].error = "Branch '" \o sess[s].branch \o "' not found."
         /\ sess[s].error # "Repository not found."

\* the repository exists, the branch feature-x the user asked for does not
C12_Witness ==
  /\ sess[1].metaStatus = 200
  /\ sess[1].treeStatus = 404
  /\ sess[1].branch = "feature-x"
  /\ view.fetchStatus = Msg("Error: Branch 'feature-x' not found.")

\* ------------------------------------------------------------------ C13
\* C13: a tree 403 fails with RateLimited, as a metadata 403 does, and any
\* other tree non-2xx except 404 fails with ApiError carrying the status.
C13_TreeFailures ==
  \A s \in Sessions :
    sess[s].treeStatus \notin {0, 200, 404} =>
      /\ sess[s].pc = "failed"
      /\ sess[s].error =
           (IF sess[s].treeStatus = 403
              THEN "GitHub API rate limit exceeded."
              ELSE "GitHub API Error (" \o ToString(sess[s].treeStatus) \o ")")

\* ------------------------------------------------------------------ C14
\* C14: the branch a fetch uses is the branch the user specified for it,
\* else the default branch the server reports for its repository, else main.
C14_BranchPrecedence ==
  \A s \in Sessions :
    sess[s].metaStatus = 200 =>
      sess[s].branch =
        (IF sess[s].userBranch # "" THEN sess[s].userBranch
         ELSE IF DefaultBranch(sess[s].repo) # "" THEN DefaultBranch(sess[s].repo)
         ELSE "main")

\* ------------------------------------------------- file selection (SpecSelect)
\* the selection has been made and was not empty
Selected == sel.pc \in {"selected", "notified", "downloading"}

\* C11: exactly one 'pending' record is emitted for each selected file, in
\* selection order, all of them before the first raw-content request is issued,
\* and none for a file that was filtered out or cut by the file-count cap.
C11_PendingManifest ==
  /\ sel.pending # <<>> =>
       /\ Len(sel.pending) = Len(sel.filesToFetch)
       /\ \A k \in DOMAIN sel.pending :
            /\ sel.pending[k].path = sel.filesToFetch[k].path
            /\ sel.pending[k].size = sel.filesToFetch[k].size
            /\ sel.pending[k].status = "pending"
  /\ sel.requested # <<>> => sel.pending # <<>>
  /\ sel.pc \in {"start", "selected", "failed"} => sel.pending = <<>> /\ sel.requested = <<>>
  /\ \A n \in DOMAIN sel.tree :
       \/ ~KeepNode(sel.tree[n], sel.fetchAll, sel.allowedExtensions, sel.maxFileSize)
       \/ \E k \in DOMAIN sel.allFiles :
            k > Len(sel.filesToFetch) /\ sel.allFiles[k].path = sel.tree[n].path
       => \A k \in DOMAIN sel.pending : sel.pending[k].path # sel.tree[n].path

\* the download has begun for a selection that lost files to the filter and to the cap
C11_Witness ==
  /\ sel.pc = "downloading"
  /\ Len(sel.requested) = batchSize
  /\ Len(sel.filtered) < Len(sel.tree)
  /\ Len(sel.filesToFetch) < Len(sel.allFiles)
  /\ Len(sel.pending) = LimitDefault

\* C15: for every caller-supplied size threshold S (including 0), with
\* fetch-everything off no selected file has a reported size greater than S;
\* entries with no reported size are never rejected by the size filter; in
\* fetch-everything mode the size cap is disabled.
C15_SizeThreshold ==
  Selected =>
    /\ ~sel.fetchAll /\ sel.maxFileSize # Undefined =>
         \A k \in DOMAIN sel.filesToFetch :
           sel.filesToFetch[k].size = Undefined \/ sel.filesToFetch[k].size <= sel.maxFileSize
    /\ \A n \in DOMAIN sel.tree :
         /\ sel.tree[n].size = Undefined
         /\ KeepNode([sel.tree[n] EXCEPT !.size = 1], sel.fetchAll, sel.allowedExtensions, sel.maxFileSize)
         => \E k \in DOMAIN sel.filtered : sel.filtered[k] = sel.tree[n]
    /\ sel.fetchAll =>
         \A n \in DOMAIN sel.tree :
           KeepNode([sel.tree[n] EXCEPT !.size = 1], sel.fetchAll, sel.allowedExtensions, sel.maxFileSize)
           => \E k \in DOMAIN sel.filtered : sel.filtered[k] = sel.tree[n]

\* C16: under every filter configuration no selected file is a lock file
\* (package-lock, yarn.lock), lies under node_modules/, dist/ or build/,
\* contains '.min.', or ends in .png, .jpg, .ico or .svg.
C16_BlocklistAlways ==
  LET fragments == { <<"p", "a", "c", "k", "a", "g", "e", "-", "l", "o", "c", "k">>, <<"y", "a", "r", "n", ".", "l", "o", "c", "k">>, <<"n", "o", "d", "e", "_", "m", "o", "d", "u", "l", "e", "s", "/">>, <<"d", "i", "s", "t", "/">>, <<"b", "u", "i", "l", "d", "/">>, <<".", "m", "i", "n", ".">> }
      endings == { <<".", "p", "n", "g">>, <<".", "j", "p", "g">>, <<".", "i", "c", "o">>, <<".", "s", "v", "g">> }
      clean(path) == /\ \A x \in fragments : ~Includes(path, x)
                     /\ \A x \in endings : ~EndsWith(path, x)
  IN /\ \A k \in DOMAIN sel.filtered : clean(sel.filtered[k].path)
     /\ \A k \in DOMAIN sel.filesToFetch : clean(sel.filesToFetch[k].path)
     /\ \A k \in DOMAIN sel.pending : clean(sel.pending[k].path)
     /\ \A k \in DOMAIN sel.requested : clean(sel.requested[k])

\* fetch-everything mode met a blob under node_modules/ and a file it selects
C16_Witness ==
  /\ sel.pc = "downloading"
  /\ sel.fetchAll
  /\ Len(sel.tree) = 2
  /\ sel.tree[1].path = <<"n", "o", "d", "e", "_", "m", "o", "d", "u", "l", "e", "s", "/", "x", ".", "j", "s">>
  /\ sel.tree[1].type = "blob"
  /\ Len(sel.filesToFetch) = 1
  /\ sel.requested = <<sel.tree[2].path>>

\* C17: the priority sort places every path ending in readme.md
\* (case-insensitive) before every .json/.toml/.yml file, these before every
\* src/-prefixed path, these before everything else; files of equal priority
\* keep their relative order from the tree listing.
C17_PriorityClasses ==
  LET class(path) ==
        IF EndsWith(ToLowerCase(path), <<"r", "e", "a", "d", "m", "e", ".", "m", "d">>) THEN 3
        ELSE IF EndsWith(path, <<".", "j", "s", "o", "n">>) \/ EndsWith(path, <<".", "t", "o", "m", "l">>) \/ EndsWith(path, <<".", "y", "m", "l">>) THEN 2
        ELSE IF StartsWith(path, <<"s", "r", "c", "/">>) THEN 1
        ELSE 0
      listed(path) == CHOOSE n \in DOMAIN sel.tree : sel.tree[n].path = path
  IN \A i, j \in DOMAIN sel.allFiles :
       /\ class(sel.allFiles[i].path) > class(sel.allFiles[j].path) => i < j
       /\ class(sel.allFiles[i].path) = class(sel.allFiles[j].path) /\ i < j
            => listed(sel.allFiles[i].path) < listed(sel.allFiles[j].path)

\* C18 as stated: the cap of a filter narrowed to one or two extensions is
\* smaller than the cap of the default set, so a narrowed selection stays
\* below the number of files a default selection may hold.
C18_NarrowCapSmaller ==
  /\ Len(sel.filesToFetch) <= limit(sel.fetchAll, sel.allowedExtensions)
  /\ sel.fetchAll => limit(sel.fetchAll, sel.allowedExtensions) > limit(FALSE, sel.allowedExtensions)
  /\ ~sel.fetchAll /\ Len(sel.allowedExtensions) \in {1, 2} =>
       Len(sel.filesToFetch) < limit(FALSE, <<>>)

\* C18, amended: the number of selected files never exceeds the cap: 200 in
\* fetch-everything mode, otherwise 30 when the caller narrowed the filter to
\* one or two extensions and 20 for three or more extensions or the default set.
C18_FileCountCap ==
  /\ sel.fetchAll => Len(sel.filesToFetch) <= 200
  /\ ~sel.fetchAll /\ Len(sel.allowedExtensions) \in {1, 2} => Len(sel.filesToFetch) <= 30
  /\ ~sel.fetchAll /\ Len(sel.allowedExtensions) \notin {1, 2} => Len(sel.filesToFetch) <= 20

\* a narrowed filter selected thirty files and the cap cut the rest
C18_Witness ==
  /\ Selected
  /\ ~sel.fetchAll
  /\ Len(sel.allowedExtensions) = 1
  /\ Len(sel.allFiles) > 30
  /\ Len(sel.filesToFetch) = 30

\* C19: outside fetch-everything mode every selected file's path ends with one
\* of the caller-selected extensions, or with one of the built-in default
\* extensions when the caller selected none; in fetch-everything mode every
\* blob that is not on the blocklist passes the filter regardless of extension
\* and size.
C19_ExtensionAllowList ==
  LET allowed == IF sel.allowedExtensions # <<>> THEN sel.allowedExtensions ELSE defaultExtensions
  IN /\ ~sel.fetchAll =>
          \A k \in DOMAIN sel.filesToFetch :
            \E e \in DOMAIN allowed : EndsWith(sel.filesToFetch[k].path, allowed[e])
     /\ sel.fetchAll /\ sel.pc # "start" =>
          sel.filtered = SelectSeq(sel.tree, LAMBDA node : node.type = "blob" /\ ~isBlocked(node.path))

\* fetch-everything mode selected a text file of no listed extension and a file
\* far above the size threshold that the caller had set
C19_Witness ==
  /\ Selected
  /\ sel.fetchAll
  /\ sel.maxFileSize = 1024
  /\ sel.allowedExtensions = << <<".", "t", "s">> >>
  /\ \E k \in DOMAIN sel.filesToFetch : sel.filesToFetch[k].path = <<"n", "o", "t", "e", "s", ".", "t", "x", "t">>
  /\ \E k \in DOMAIN sel.filesToFetch : sel.filesToFetch[k].size > DefaultMaxSize

\* --------------------------------------------------- round trip (SpecChunk)
\* C20: for every set of files with unique paths and contents under 2000
\* characters, any content included, assembling the corpus and then running
\* chunkCode recovers exactly the original {fileName, content} pairs, in order,
\* and nothing else.
C20_RoundTrip ==
  /\ rt.pc = "chunked"
  /\ \A k \in DOMAIN rt.files : Len(rt.files[k].content) < ChunkSize
  =>
    /\ Len(rt.chunks) = Len(rt.files)
    /\ \A k \in DOMAIN rt.chunks :
         /\ rt.chunks[k].fileName = rt.files[k].path
         /\ rt.chunks[k].content = rt.files[k].content

\* the number of chunks the files before the k-th are cut into
RECURSIVE PartsBefore(_, _)
PartsBefore(files, k) ==
  IF k <= 1 THEN 0
  ELSE PartsBefore(files, k - 1)
         + (IF Len(files[k - 1].content) <= 2000 THEN 1
            ELSE (Len(files[k - 1].content) + 1999) \div 2000)

C30_CommitsOfLatestSession ==
  view.commits # 0 /\ ~aborted[view.commits] =>
    /\ sess[view.commits].repo = sess[nSessions].repo
    /\ sess[view.commits].branch = sess[nSessions].branch

\* ------------------------------------------------ semantic index (SpecRag)
\* C22: indexCodebase has at most one embedding request in flight and issues
\* request i+1 only after request i settled; for every pattern of failures it
\* returns the full chunk list in chunker order with the same length, a chunk
\* whose request failed without an embedding and a chunk whose request
\* succeeded with it, and it never raises because of a chunk failure.
C22_SequentialIndex ==
  LET x == rag.ix
  IN /\ x.issued - Len(x.outcomes) \in {0, 1}
     /\ x.issued - Len(x.outcomes) = 1 <=> x.pc = "embedding"
     /\ ~x.raised
     /\ x.pc = "done" =>
          /\ Len(x.outcomes) = Len(x.chunks)
          /\ view.indexedChunks = x.indexedChunks
          /\ Len(x.indexedChunks) = Len(x.chunks)
          /\ \A k \in DOMAIN x.chunks :
               /\ x.indexedChunks[k].id = x.chunks[k].id
               /\ x.indexedChunks[k].fileName = x.chunks[k].fileName
               /\ x.outcomes[k] = Rejected => x.indexedChunks[k].embedding = NoEmbedding
               /\ x.outcomes[k] # Rejected => x.indexedChunks[k].embedding = x.outcomes[k]

\* three chunks were indexed, the first and the last request having failed
C22_Witness ==
  /\ rag.ix.pc = "done"
  /\ Len(rag.ix.chunks) = 3
  /\ rag.ix.outcomes[1] = Rejected
  /\ rag.ix.outcomes[2] # Rejected
  /\ rag.ix.outcomes[3] = Rejected
  /\ Len(view.indexedChunks) = 3

\* C23 as stated: the notification with current = i is emitted only once the
\* i-th chunk's embedding request has settled.
C23_ProgressAfterAttempt ==
  \A k \in DOMAIN rag.ix.progress :
    rag.ix.progress[k].settled >= rag.ix.progress[k].current

\* C23, amended: the notification with current = i is the i-th one, carries
\* the total, and is emitted before the i-th chunk's embedding request is
\* issued, once the first i - 1 requests have settled.
C23_ProgressBeforeAttempt ==
  \A k \in DOMAIN rag.ix.progress :
    /\ rag.ix.progress[k].current = k
    /\ rag.ix.progress[k].total = Len(rag.ix.chunks)
    /\ rag.ix.progress[k].issued = k - 1
    /\ rag.ix.progress[k].settled = k - 1

\* the third notification was emitted and the third request is still in flight
C23_Witness ==
  /\ rag.ix.pc = "embedding"
  /\ Len(rag.ix.progress) = 3
  /\ Len(rag.ix.outcomes) = 2
  /\ view.fetchStatus = Indexing(3, 3)

\* C24: searchCodebase on an index in which no chunk has an embedding (the
\* empty index included) returns an empty result at once, without error and
\* without issuing a query-embedding request.
C24_NoEmbeddedNoRequest ==
  /\ rag.sr.pc # "idle"
  /\ \A k \in DOMAIN rag.sr.index : rag.sr.index[k].embedding = NoEmbedding
  => /\ rag.sr.pc = "done"
     /\ rag.sr.results = <<>>
     /\ rag.sr.queryRequests = 0
     /\ ~rag.sr.raised

\* a search over two indexed chunks, neither of which got its embedding
C24_Witness ==
  /\ rag.sr.pc = "done"
  /\ rag.sr.byHandler
  /\ Len(rag.sr.index) = 2
  /\ \A k \in DOMAIN rag.sr.index : rag.sr.index[k].embedding = NoEmbedding
  /\ view.semanticResults = <<>>
  /\ ~view.isSearchingRAG

\* the query-embedding request of the search was issued and has failed
QueryFailed == rag.sr.pc = "done" /\ rag.sr.queryRequests = 1 /\ rag.sr.query = NoEmbedding

\* C25: searchCodebase never propagates a failure of the query embedding:
\* whenever the query-embedding request fails the search resolves to an empty
\* result set.
C25_QueryFailureIsEmpty ==
  QueryFailed =>
    /\ ~rag.sr.raised
    /\ rag.sr.results = <<>>
    /\ rag.sr.byHandler => view.semanticResults = <<>> /\ ~view.isSearchingRAG

\* the handler's search over an index with embedded chunks lost its query request
C25_Witness ==
  /\ QueryFailed
  /\ rag.sr.byHandler
  /\ \E k \in DOMAIN rag.sr.index : rag.sr.index[k].embedding # NoEmbedding

\* C26: with at least one embedded chunk and a successful query embedding,
\* searchCodebase embeds the query once and returns min(K, number of embedded
\* chunks) results, all of them embedded chunks of the index, in
\* non-increasing score order, no omitted embedded chunk scoring higher than
\* a returned one; chunks without an embedding are never returned and the
\* index is left unmodified.
C26_TopKRanking ==
  rag.sr.pc = "done" /\ rag.sr.query # NoEmbedding =>
    LET index == rag.sr.index
        results == rag.sr.results
        embedded == {k \in DOMAIN index : index[k].embedding # NoEmbedding}
        returned == {k \in embedded : \E r \in DOMAIN results : results[r].id = index[k].id}
        sim(k) == cosineSimilarity(rag.sr.query, index[k].embedding)
    IN /\ rag.sr.queryRequests = 1
       /\ Len(results) = Min(rag.sr.topK, Cardinality(embedded))
       /\ Cardinality(returned) = Len(results)
       /\ \A r \in DOMAIN results :
            \E k \in embedded : /\ results[r].id = index[k].id
                                /\ results[r].fileName = index[k].fileName
                                /\ results[r].embedding = index[k].embedding
                                /\ results[r].score = sim(k)
       /\ \A a, b \in DOMAIN results : a < b => ~ScoreLess(results[a].score, results[b].score)
       /\ \A k \in embedded \ returned, r \in DOMAIN results : ~ScoreLess(results[r].score, sim(k))
       /\ view.indexedChunks = index

\* the best of three embedded chunks was returned, and it was not the first of the index
C26_Witness ==
  /\ rag.sr.pc = "done"
  /\ rag.sr.query # NoEmbedding
  /\ rag.sr.topK = 1
  /\ Len(rag.sr.index) = 3
  /\ \A k \in DOMAIN rag.sr.index : rag.sr.index[k].embedding # NoEmbedding
  /\ Len(rag.sr.results) = 1
  /\ rag.sr.results[1].id = rag.sr.index[3].id
  /\ ScoreLess(cosineSimilarity(rag.sr.query, rag.sr.index[1].embedding), rag.sr.results[1].score)

\* ---------------------------------- the index beside the fetches (SpecIndexView)
\* C27: the chunk list belongs to one session's corpus and is discarded or
\* replaced when the next fetch session produces a new corpus, so a semantic
\* search never ranks chunks of a previous session's corpus. (Stated for
\* searches made while the context pane holds the corpus of a session that
\* was never aborted, and for chunks of such sessions.)
C27_SearchRanksCurrentCorpus ==
  rag.sr.pc # "idle" /\ rag.sr.context # 0 /\ ~aborted[rag.sr.context] =>
    \A k \in DOMAIN rag.sr.index :
      aborted[rag.sr.index[k].corpus] \/ rag.sr.index[k].corpus = rag.sr.context

\* C28: while a fetch session is active, the file-status collection and the
\* fetch progress/status value are written only by that session's downloader
\* callbacks: no step of the indexer writes to them. (Stated for behaviours
\* in which no session was aborted.)
C28_IndexerWritesNoFetchState ==
  [][ /\ \E s \in Sessions : Active(s)
      /\ \A s \in Sessions : ~aborted[s]
      /\ rag'.ix # rag.ix
      =>
        /\ view'.fetchStatus = view.fetchStatus
        /\ view'.fetchProgress = view.fetchProgress
        /\ view'.fetchedFiles = view.fetchedFiles ]_vars

\* ------------------------------------------------------------------ C29
\* The path segments of a URL written with these segments: ".." takes back
\* the segment before it, "." is none, and the empty ones are left out.
RECURSIVE Resolved(_)
Resolved(segs) ==
  IF segs = <<>> THEN <<>>
  ELSE LET before == Resolved(SubSeq(segs, 1, Len(segs) - 1))
           seg == segs[Len(segs)]
       IN IF seg = <<".", ".">>
            THEN (IF before = <<>> THEN before ELSE SubSeq(before, 1, Len(before) - 1))
            ELSE IF seg = <<".">> THEN before ELSE Append(before, seg)

NamedSegments(segs) == LET Named(seg) == seg # <<>> IN SelectSeq(Resolved(segs), Named)

\* C29: parseGithubUrl never throws. For a string whose host is github.com
\* and whose path has two non-empty segments or more it returns the first as
\* owner and the second, less one trailing ".git", as repo, whatever segments,
\* query or fragment follow; for every other string (not a URL, another host,
\* fewer than two segments) it returns null. The segments of a path are those
\* of the parsed URL, dot segments resolved.
C29_ParseGithubUrl ==
  pu.pc = "parsed" =>
    LET named == NamedSegments(pu.segments)
        accepted == pu.origin \in GithubOrigins /\ Len(named) >= 2
    IN /\ ~pu.raised
       /\ accepted =>
            /\ pu.value # Null
            /\ pu.value.owner = named[1]
            /\ IF EndsWith(named[2], DotGit)
                 THEN pu.value.repo \o DotGit = named[2]
                 ELSE pu.value.repo = named[2]
       /\ ~accepted => pu.value = Null

\* an https://github.com URL with a ".git" suffix and a trailing segment
C29_Witness ==
  /\ pu.pc = "parsed"
  /\ pu.url = <<"h", "t", "t", "p", "s", ":", "/", "/", "g", "i", "t", "h", "u", "b", ".", "c", "o", "m", "/", "o", "c", "t", "o", "/", "a", "l", "p", "h", "a", ".", "g", "i", "t", "/", "t", "r", "e", "e">>
  /\ pu.value = [owner |-> <<"o", "c", "t", "o">>, repo |-> <<"a", "l", "p", "h", "a">>]
  /\ ~pu.raised


====
